---- MODULE Spec2Model ----
(***************************************************************************)
(* Flood-infrastructure planning pipeline:                                 *)
(*   build_graph.py       endpoint clustering and undirected graph         *)
(*   flow_simulation.py   east-to-west orientation and flow propagation    *)
(*   astar_pathfinding.py A* search over existing and proposed edges       *)
(*                                                                         *)
(* Numbers.  The code works in floating point; the model works in exact    *)
(* integer arithmetic.  Node coordinates are points of a small grid whose  *)
(* step is 0.3 km, distances are counted in units of 0.025 km (so the      *)
(* 0.5 km limit for a proposed canal is 20 units), and path costs are      *)
(* counted in tenths of a cost unit (so the multipliers 1.0, 0.1 and 300   *)
(* are 10, 1 and 3000 tenths per distance unit).                           *)
(***************************************************************************)
EXTENDS Integers, Sequences, FiniteSets, TLC

\* ------------------------------------------------------------- bounds
NumNodes == 4          \* nodes of a graph handed to the planner
MaxEdges == 3          \* waterway edges of a graph handed to the planner
MaxFlooded == 2        \* entries of the flood report

Nodes == 1..NumNodes

\* The grid: columns (longitudes) and rows (latitudes) a node can lie on.
Lons == {0, 1, 2}

Lats == {0, 1}
Runs == {1, 2}

NumWaterways == 2      \* waterway segments handed to the graph builder

(* The positions a segment endpoint can take, in units of 0.0001 degree.  *)
(* With the snap threshold at 10 units: (0,3) and (10,3) are exactly at    *)
(* the threshold, (20,3) is within it of (10,3) only, (10,0) is well       *)
(* within it of (10,3) only, (5,12) is beyond it from every other point    *)
(* but 9 units from the midpoint of (0,3) and (10,3), and (30,12) is       *)
(* beyond it from everything.                                               *)
Points == {<<0, 3>>, <<10, 3>>, <<5, 12>>, <<20, 3>>, <<10, 0>>, <<30, 12>>}

VARIABLES
    lon, lat,          \* G.nodes[n]['lon'], G.nodes[n]['lat']
    G_edges,           \* the undirected working graph: node pair -> capacity
    edges,             \* the directed edges (u, v) of G_directed
    capacity,          \* G_directed[u][v]['capacity']
    sim,               \* the flow simulation's tracking variables
    flood_results,     \* flood_simulation_results.json
    edge_flow_data,    \* edge_flows.json
    goal_nodes,        \* sink_nodes_sorted[:5]
    max_iterations,    \* the iteration ceiling of astar_find_path
    search,            \* per call of astar_find_path: its local state
    build,             \* the graph builder's variables
    planner,           \* the planner's origin loop, result records and report
    server             \* per /api/simulate request: its place in the pipeline

vars ==
    <<lon, lat, G_edges, edges, capacity, sim, flood_results, edge_flow_data,
      goal_nodes, max_iterations, search, build, planner, server>>

\* What a search reads and leaves alone.
graphVars ==
    <<lon, lat, G_edges, edges, capacity, sim, flood_results, edge_flow_data,
      goal_nodes, max_iterations, build, planner, server>>

\* What the flow simulation leaves alone.
plannerVars == <<goal_nodes, max_iterations, search, build, planner, server>>

\* ------------------------------------------------------------- helpers
None == "None"

Put(f, k, v) == [x \in (DOMAIN f) \cup {k} |-> IF x = k THEN v ELSE f[x]]

Min(S) == CHOOSE x \in S : \A y \in S : x <= y

Range(f) == {f[x] : x \in DOMAIN f}

\* Exact fractions <<numerator, denominator>> in lowest terms, denominator > 0,
\* for the quantities the code holds as floats.
RECURSIVE GCD(_, _)
GCD(a, b) == IF b = 0 THEN a ELSE GCD(b, a % b)

Rat(n, d) ==
    LET g == GCD(IF n < 0 THEN -n ELSE n, d)
    IN <<n \div g, d \div g>>

RInt(n) == <<n, 1>>

RAdd(a, b) == Rat(a[1] * b[2] + b[1] * a[2], a[2] * b[2])

RSub(a, b) == Rat(a[1] * b[2] - b[1] * a[2], a[2] * b[2])

RMul(a, b) == Rat(a[1] * b[1], a[2] * b[2])

RLess(a, b) == a[1] * b[2] < b[1] * a[2]

RECURSIVE RSum(_)
RSum(seq) == IF seq = <<>> THEN RInt(0) ELSE RAdd(Head(seq), RSum(Tail(seq)))

\* The sum of f over the set S.
RECURSIVE RSumOver(_, _)
RSumOver(S, f) ==
    IF S = {}
    THEN RInt(0)
    ELSE LET x == CHOOSE y \in S : TRUE
         IN RAdd(f[x], RSumOver(S \ {x}, f))

\* The least r with r * r >= n.
CeilSqrt(n) == CHOOSE r \in 0..n : r * r >= n /\ (r = 0 \/ (r - 1) * (r - 1) < n)

Max(S) == CHOOSE x \in S : \A y \in S : x >= y

\* CeilSqrt over the squared lengths the grid and the endpoint positions can hold.
SqrtTable ==
    LET grid == 144 * (Max(Lons) * Max(Lons) + Max(Lats) * Max(Lats))
        span == Max({(p[1] - q[1]) * (p[1] - q[1]) + (p[2] - q[2]) * (p[2] - q[2]) :
                        <<p, q>> \in Points \X Points})
    IN [n \in 0..Max({grid, span}) |-> CeilSqrt(n)]

\* ------------------------------------------------------------- configuration
EXISTING_EDGE_BASE_COST == 10
NEW_EDGE_CONSTRUCTION_COST == 3000
FLOOD_TRAVERSAL_COST_MULTIPLIER == 1
MAX_NEW_EDGE_DISTANCE_KM == 20
MAX_ITERATIONS == 10000
NUM_GOALS == 5

\* ------------------------------------------------------------- geometry
(* Distance between two (lon, lat) points.  Over the few hundred metres    *)
(* of a grid the great-circle distance is the planar one; it is rounded up *)
(* to a whole unit, which keeps it a metric (zero only between equal       *)
(* points, symmetric, triangle inequality).                                *)
haversine_distance_km(coord1, coord2) ==
    LET dlon == 12 * (coord1[1] - coord2[1])
        dlat == 12 * (coord1[2] - coord2[2])
    IN SqrtTable[dlon * dlon + dlat * dlat]

get_node_coord(node) == <<lon[node], lat[node]>>

\* ------------------------------------------------------------- flow direction
(* flow_simulation.py orients each undirected edge (u, v), u before v in   *)
(* the node order, east to west, then north to south.                      *)
OrientEdge_LongitudeOnly(u, v) ==
    IF lon[u] > lon[v] THEN <<u, v>>
    ELSE IF lon[v] > lon[u] THEN <<v, u>>
    ELSE <<u, v>>

OrientEdge(u, v) ==
    IF lon[u] > lon[v] THEN <<u, v>>
    ELSE IF lon[v] > lon[u] THEN <<v, u>>
    ELSE IF lat[u] > lat[v] THEN <<u, v>>
    ELSE <<v, u>>

out_edges(node) == {e \in edges : e[1] = node}

in_edges(node) == {e \in edges : e[2] = node}

sink_nodes == {n \in Nodes : out_edges(n) = {}}

\* Position of a sink in sorted(sink_nodes, key=lon): stable, so equal
\* longitudes keep the node order.
SinkRank(n) ==
    Cardinality({m \in sink_nodes : lon[m] < lon[n] \/ (lon[m] = lon[n] /\ m < n)})

\* sink_nodes_sorted[:count]
WesternmostSinks(count) == {n \in sink_nodes : SinkRank(n) < count}

\* ------------------------------------------------------------- graph builder
\* Capacity by waterway type, and the capacity of a type not listed.
CAPACITY_BY_TYPE ==
    Put([river |-> 100, canal |-> 60, drain |-> 30, stream |-> 20, ditch |-> 10,
         dam |-> 200],
        None, 15)

DEFAULT_CAPACITY == 15

(* Endpoint coordinates are offsets in units of 0.0001 degree, so the snap *)
(* threshold of 0.001 degree is 10 units.  Indices are those of the code,  *)
(* counted from 0.                                                          *)
SNAP_THRESHOLD_DEGREES == 10

\* CAPACITY_BY_TYPE.get(waterway_type, 15)
CapacityOf(waterway_type) ==
    IF waterway_type \in DOMAIN CAPACITY_BY_TYPE
    THEN CAPACITY_BY_TYPE[waterway_type]
    ELSE DEFAULT_CAPACITY

\* The length along a waterway's coordinates, rounded up to whole units.
length_km(coords) ==
    LET leg(i) ==
            LET dlon == coords[i][1] - coords[i + 1][1]
                dlat == coords[i][2] - coords[i + 1][2]
            IN SqrtTable[dlon * dlon + dlat * dlat]
        legs == [i \in 1..(Len(coords) - 1) |-> leg(i)]
        sum[i \in 0..Len(legs)] == IF i = 0 THEN 0 ELSE sum[i - 1] + legs[i]
    IN sum[Len(legs)]

query_pairs_Strict(endpoint_coords, r) ==
    {p \in (DOMAIN endpoint_coords) \X (DOMAIN endpoint_coords) :
        /\ p[1] < p[2]
        /\ LET dx == endpoint_coords[p[1]][1] - endpoint_coords[p[2]][1]
               dy == endpoint_coords[p[1]][2] - endpoint_coords[p[2]][2]
           IN dx * dx + dy * dy < r * r}

\* The index pairs (i, j), i < j, of points at distance at most r.
query_pairs(endpoint_coords, r) ==
    {p \in (DOMAIN endpoint_coords) \X (DOMAIN endpoint_coords) :
        /\ p[1] < p[2]
        /\ LET dx == endpoint_coords[p[1]][1] - endpoint_coords[p[2]][1]
               dy == endpoint_coords[p[1]][2] - endpoint_coords[p[2]][2]
           IN dx * dx + dy * dy <= r * r}

\* find(x) with path compression: <<root, parent afterwards>>.
RECURSIVE find(_, _)
find(parent, x) ==
    IF parent[x] # x
    THEN LET up == find(parent, parent[x])
         IN <<up[1], [up[2] EXCEPT ![x] = up[1]]>>
    ELSE <<x, parent>>

union_LinkElement(parent, x, y) ==
    LET fx == find(parent, x)
        fy == find(fx[2], y)
    IN IF fx[1] # fy[1] THEN [fy[2] EXCEPT ![x] = fy[1]] ELSE fy[2]

\* union(x, y): parent afterwards.
union(parent, x, y) ==
    LET fx == find(parent, x)
        fy == find(fx[2], y)
    IN IF fx[1] # fy[1] THEN [fy[2] EXCEPT ![fx[1]] = fy[1]] ELSE fy[2]

\* parent after find(0), find(1), ..., find(upto).
RECURSIVE FindAll(_, _)
FindAll(parent, upto) ==
    IF upto < 0 THEN parent ELSE find(FindAll(parent, upto - 1), upto)[2]

\* The number of flood points at which the selection stops.
MAX_FLOOD_POINTS == 20

\* Before the planner has selected its flood origins.
IdlePlanner ==
    [pc |-> "idle", min_separation_km |-> 0, max_flood_points |-> MAX_FLOOD_POINTS,
     selected_flood_points |-> <<>>, i |-> 0,
     solutions |-> <<>>, successful_solutions |-> <<>>, total_investment |-> 0,
     total_relief |-> RInt(0), total_new_km |-> 0]

\* Before any request has reached the server.
Requests == {1, 2}

IdleServer ==
    [r \in Requests |->
        [pc |-> "idle", stage |-> 0, op |-> 0, busy |-> FALSE, torn |-> FALSE,
         intensity |-> 0, started |-> <<>>, returncodes |-> <<>>, events |-> <<>>]]

\* Before the builder has read the waterways.
IdleBuild ==
    [pc |-> "idle", linear |-> <<>>, waterway_data |-> <<>>, all_endpoints |-> <<>>,
     pairs |-> {}, parent |-> <<>>, clusters |-> <<>>, node_to_coord |-> <<>>,
     endpoint_to_node |-> <<>>, edges_data |-> <<>>, G |-> <<>>]

(* First pass over the waterways: the segment records, the two endpoints   *)
(* of each, the endpoint pairs within the snap threshold and the initial   *)
(* disjoint-set forest.                                                     *)
BuildExtract ==
    /\ build.pc = "load"
    /\ LET rows == build.linear
           count == Len(rows)
           waterway_data ==
               [w \in 0..(count - 1) |->
                   [coords |-> rows[w + 1].coords,
                    waterway_type |-> rows[w + 1].waterway,
                    name |-> rows[w + 1].name,
                    osm_id |-> rows[w + 1].id,
                    capacity |-> CapacityOf(rows[w + 1].waterway)]]
           all_endpoints ==
               [i \in 0..(2 * count - 1) |->
                   LET coords == waterway_data[i \div 2].coords
                       point == IF i % 2 = 0 THEN coords[1] ELSE coords[Len(coords)]
                   IN <<point[1], point[2], i \div 2, i % 2 = 0>>]
           endpoint_coords ==
               [i \in DOMAIN all_endpoints |-> <<all_endpoints[i][1], all_endpoints[i][2]>>]
       IN build' = [build EXCEPT
                       !.pc = "union",
                       !.waterway_data = waterway_data,
                       !.all_endpoints = all_endpoints,
                       !.pairs = query_pairs(endpoint_coords, SNAP_THRESHOLD_DEGREES),
                       !.parent = [i \in DOMAIN all_endpoints |-> i]]
    /\ UNCHANGED <<lon, lat, G_edges, edges, capacity, sim, flood_results, edge_flow_data>>
    /\ UNCHANGED <<goal_nodes, max_iterations, search, planner, server>>

\* One iteration of the loop over the pairs, which are a set: any order.
BuildUnion(i, j) ==
    /\ build.pc = "union"
    /\ <<i, j>> \in build.pairs
    /\ build' = [build EXCEPT
                    !.pairs = @ \ {<<i, j>>},
                    !.parent = union(@, i, j)]
    /\ UNCHANGED <<lon, lat, G_edges, edges, capacity, sim, flood_results, edge_flow_data>>
    /\ UNCHANGED <<goal_nodes, max_iterations, search, planner, server>>

(* Clusters in the order their first endpoint is met, one node per cluster *)
(* at the unweighted centroid of its endpoints, and the endpoint-to-node   *)
(* mapping.                                                                 *)
BuildCluster ==
    /\ build.pc = "union"
    /\ build.pairs = {}
    /\ LET last == Cardinality(DOMAIN build.all_endpoints) - 1
           parent == FindAll(build.parent, last)
           root(i) == find(parent, i)[1]
           cluster_ids == {root(i) : i \in 0..last}
           members(c) == {i \in 0..last : root(i) = c}
           first(c) == Min(members(c))
           cluster_to_node ==
               [c \in cluster_ids |-> Cardinality({o \in cluster_ids : first(o) < first(c)})]
           cluster_of(n) == CHOOSE c \in cluster_ids : cluster_to_node[c] = n
           total(S, k) == RSumOver(S, [m \in S |-> RInt(build.all_endpoints[m][k])])
           centroid(c) ==
               <<RMul(total(members(c), 1), Rat(1, Cardinality(members(c)))),
                 RMul(total(members(c), 2), Rat(1, Cardinality(members(c))))>>
       IN build' = [build EXCEPT
                       !.pc = "edges",
                       !.parent = parent,
                       !.clusters = [c \in cluster_ids |-> members(c)],
                       !.node_to_coord =
                           [n \in 0..(Cardinality(cluster_ids) - 1) |-> centroid(cluster_of(n))],
                       !.endpoint_to_node = [i \in 0..last |-> cluster_to_node[root(i)]]]
    /\ UNCHANGED <<lon, lat, G_edges, edges, capacity, sim, flood_results, edge_flow_data>>
    /\ UNCHANGED <<goal_nodes, max_iterations, search, planner, server>>

\* One candidate edge per waterway whose endpoints are two different nodes.
EdgesData(waterway_data, endpoint_to_node) ==
    LET RECURSIVE from(_)
        from(ww_idx) ==
            IF ww_idx \notin DOMAIN waterway_data
            THEN <<>>
            ELSE LET ww == waterway_data[ww_idx]
                     start_node == endpoint_to_node[ww_idx * 2]
                     end_node == endpoint_to_node[ww_idx * 2 + 1]
                 IN IF start_node = end_node
                    THEN from(ww_idx + 1)
                    ELSE <<[start_node |-> start_node,
                            end_node |-> end_node,
                            waterway_type |-> ww.waterway_type,
                            name |-> ww.name,
                            osm_id |-> ww.osm_id,
                            length_km |-> length_km(ww.coords),
                            capacity |-> ww.capacity]>> \o from(ww_idx + 1)
    IN from(0)

\* G.has_edge(u, v): the adjacency of an undirected graph holds both directions.
has_edge(G, u, v) == <<u, v>> \in DOMAIN G

replaces_Always(new_capacity, existing_cap) == TRUE

\* if edge['capacity'] > existing_cap
replaces(new_capacity, existing_cap) == new_capacity > existing_cap

\* The body of the loop over edges_data.
AddEdge(G, edge) ==
    LET u == edge.start_node
        v == edge.end_node
    IN IF ~has_edge(G, u, v)
       THEN LET attrs == [waterway_type |-> edge.waterway_type,
                          name |-> edge.name,
                          osm_id |-> edge.osm_id,
                          length_km |-> edge.length_km,
                          capacity |-> edge.capacity]
            IN Put(Put(G, <<u, v>>, attrs), <<v, u>>, attrs)
       ELSE IF replaces(edge.capacity, G[<<u, v>>].capacity)
            THEN Put(Put(G, <<u, v>>, edge), <<v, u>>, edge)
            ELSE G

RECURSIVE AddEdges(_, _)
AddEdges(G, todo) ==
    IF todo = <<>> THEN G ELSE AddEdges(AddEdge(G, Head(todo)), Tail(todo))

\* The candidate edges and the undirected graph.
BuildEdges ==
    /\ build.pc = "edges"
    /\ LET edges_data == EdgesData(build.waterway_data, build.endpoint_to_node)
       IN build' = [build EXCEPT
                       !.pc = "done",
                       !.edges_data = edges_data,
                       !.G = AddEdges(<<>>, edges_data)]
    /\ UNCHANGED <<lon, lat, G_edges, edges, capacity, sim, flood_results, edge_flow_data>>
    /\ UNCHANGED <<goal_nodes, max_iterations, search, planner, server>>

\* ------------------------------------------------------------- flow simulation
STORM_INTENSITY == 100

source_nodes == {n \in Nodes : in_edges(n) = {}}

\* Twice the base rainfall at a source node, half of it elsewhere.
calculate_rainfall(node, is_source) ==
    IF is_source THEN RInt(STORM_INTENSITY * 2) ELSE Rat(STORM_INTENSITY, 2)

\* Before the simulation has loaded the working graph.
IdleSim ==
    [pc |-> "idle", node_rainfall |-> <<>>, node_water |-> <<>>, edge_flow |-> <<>>,
     node_excess |-> <<>>, flooded_edges |-> <<>>, processed |-> {},
     processing_order |-> <<>>]

\* No flood report has been written yet.
NoReport == [flooded_edge_count |-> 0, flooded_edges |-> <<>>]

Excess_StartsOver(node_excess, n) == RInt(0)

\* node_excess is a defaultdict(float).
Excess(node_excess, n) == IF n \in DOMAIN node_excess THEN node_excess[n] ELSE RInt(0)

flooded_GreaterOrEqual(flow, cap) == ~RLess(flow, RInt(cap))

\* if flow > capacity
flooded(flow, cap) == RLess(RInt(cap), flow)

actual_flow_Uncapped(flow, cap) == flow

actual_flow_NothingWhenFlooded(flow, cap) ==
    IF flooded(flow, cap) THEN RInt(0) ELSE flow

\* What the downstream node receives: the flow, capped at the capacity.
actual_flow(flow, cap) == IF flooded(flow, cap) THEN RInt(cap) ELSE flow

proportion_EqualShares(cap, total_capacity, num_out) == Rat(1, num_out)

proportion_WholeWhenZero(cap, total_capacity, num_out) ==
    IF total_capacity > 0 THEN Rat(cap, total_capacity) ELSE RInt(1)

\* capacity / total_capacity if total_capacity > 0 else 1 / len(out_edges)
proportion(cap, total_capacity, num_out) ==
    IF total_capacity > 0 THEN Rat(cap, total_capacity) ELSE Rat(1, num_out)

\* The body of the loop over the outgoing edges of node u, for the edge (u, v).
PropagateEdge(s, e, current_water, total_capacity, num_out) ==
    LET u == e[1]
        v == e[2]
        cap == capacity[e]
        flow == RMul(current_water, proportion(cap, total_capacity, num_out))
        overflow == RSub(flow, RInt(cap))
        is_flooded == flooded(flow, cap)
    IN [s EXCEPT
          !.edge_flow = Put(@, e, flow),
          !.flooded_edges =
              IF is_flooded
              THEN Append(@, [from_node |-> u, to_node |-> v, flow |-> flow,
                              capacity |-> cap, overflow |-> overflow])
              ELSE @,
          !.node_excess =
              IF is_flooded THEN Put(@, u, RAdd(Excess(@, u), overflow)) ELSE @,
          !.node_water = Put(@, v, RAdd(@[v], actual_flow(flow, cap)))]

\* The outgoing edges of a node, in the order the graph lists them.
OutEdgeSeq(node) ==
    LET targets == {e[2] : e \in out_edges(node)}
        position(t) == Cardinality({o \in targets : o < t}) + 1
    IN [i \in 1..Cardinality(targets) |->
          <<node, CHOOSE t \in targets : position(t) = i>>]

RECURSIVE PropagateEdges(_, _, _, _, _)
PropagateEdges(s, todo, current_water, total_capacity, num_out) ==
    IF todo = <<>>
    THEN s
    ELSE PropagateEdges(
             PropagateEdge(s, Head(todo), current_water, total_capacity, num_out),
             Tail(todo), current_water, total_capacity, num_out)

RECURSIVE SumCapacity(_)
SumCapacity(todo) ==
    IF todo = <<>> THEN 0 ELSE capacity[Head(todo)] + SumCapacity(Tail(todo))

(* Orientation of the working graph, source and sink identification,       *)
(* rainfall and the initial tracking variables.                             *)
FlowSetup ==
    /\ sim.pc = "idle"
    /\ LET oriented == {OrientEdge(p[1], p[2]) : p \in DOMAIN G_edges}
           pair(e) == IF e[1] < e[2] THEN e ELSE <<e[2], e[1]>>
           rainfall ==
               [n \in Nodes |->
                   calculate_rainfall(n, \A e \in oriented : e[2] # n)]
       IN /\ edges' = oriented
          /\ capacity' = [e \in oriented |-> G_edges[pair(e)]]
          /\ sim' = [pc |-> "propagate", node_rainfall |-> rainfall,
                     node_water |-> rainfall, edge_flow |-> <<>>,
                     node_excess |-> <<>>, flooded_edges |-> <<>>, processed |-> {},
            processing_order |-> <<>>]
    /\ UNCHANGED <<lon, lat, G_edges, flood_results, edge_flow_data>>
    /\ UNCHANGED plannerVars

\* The nodes joined to the nodes of S by edges, whatever their direction.
RECURSIVE weakly_connected_component(_)
weakly_connected_component(S) ==
    LET grown == S \cup {e[2] : e \in {o \in edges : o[1] \in S}}
                   \cup {e[1] : e \in {o \in edges : o[2] \in S}}
    IN IF grown = S THEN S ELSE weakly_connected_component(grown)

\* The nodes that the nodes of S lead to along directed edges.
RECURSIVE descendants(_)
descendants(S) ==
    LET grown == S \cup {e[2] : e \in {o \in edges : o[1] \in S}}
    IN IF grown = S THEN S ELSE descendants(grown)

\* nx.topological_sort raises NetworkXUnfeasible on this component.
has_cycle(component) ==
    \E n \in component : n \in descendants({e[2] : e \in out_edges(n)})

ready_AnyOrder(node) == TRUE

(* node may come next in processing_order: in a component without a cycle  *)
(* the order is a topological one, so every node with an edge into it has  *)
(* come; a component with a cycle is sorted by descending longitude, nodes *)
(* of one longitude in the order the set yields them.                      *)
ready(node) ==
    LET component == weakly_connected_component({node})
    IN IF has_cycle(component)
       THEN \A n \in component \ sim.processed : lon[n] <= lon[node]
       ELSE \A e \in in_edges(node) : e[1] \in sim.processed

\* One iteration of the propagation loop, for the next node of processing_order.
ProcessNode(node) ==
    /\ sim.pc = "propagate"
    /\ node \notin sim.processed
    /\ ready(node)
    /\ LET todo == OutEdgeSeq(node)
           current_water == sim.node_water[node]
           after ==
               IF todo = <<>>
               THEN sim
               ELSE PropagateEdges(sim, todo, current_water, SumCapacity(todo), Len(todo))
       IN sim' = [after EXCEPT !.processed = @ \cup {node},
                               !.processing_order = Append(@, node)]
    /\ UNCHANGED <<lon, lat, G_edges, edges, capacity, flood_results, edge_flow_data>>
    /\ UNCHANGED plannerVars

\* The nodes n with node_excess[n] > 0.
PositiveExcess(node_excess) ==
    {n \in DOMAIN node_excess : RLess(RInt(0), node_excess[n])}

(* The analysis and the two result files.  The flood rate divides by the   *)
(* number of edges and the utilization of an edge by its capacity; a       *)
(* division by zero ends the stage before the file is written.             *)
FlowSave ==
    /\ sim.pc = "propagate"
    /\ sim.processed = Nodes
    /\ IF edges = {}
       THEN /\ sim' = [sim EXCEPT !.pc = "failed"]
            /\ UNCHANGED <<flood_results, edge_flow_data>>
       ELSE /\ flood_results' =
                  [storm_intensity |-> STORM_INTENSITY,
                   total_rainfall |-> RSum([n \in Nodes |-> sim.node_rainfall[n]]),
                   total_edges |-> Cardinality(edges),
                   flooded_edge_count |-> Len(sim.flooded_edges),
                   flood_rate_percent |->
                       Rat(100 * Len(sim.flooded_edges), Cardinality(edges)),
                   total_overflow |->
                       RSum([i \in 1..Len(sim.flooded_edges) |->
                                sim.flooded_edges[i].overflow]),
                   flooded_edges |-> sim.flooded_edges,
                   flooded_nodes |-> PositiveExcess(sim.node_excess),
                   node_excess |->
                       [n \in PositiveExcess(sim.node_excess) |-> sim.node_excess[n]]]
            /\ IF \E e \in DOMAIN sim.edge_flow : capacity[e] = 0
               THEN /\ sim' = [sim EXCEPT !.pc = "failed"]
                    /\ UNCHANGED edge_flow_data
               ELSE /\ sim' = [sim EXCEPT !.pc = "saved"]
                    /\ edge_flow_data' =
                          [e \in DOMAIN sim.edge_flow |->
                              [flow |-> sim.edge_flow[e],
                               capacity |-> capacity[e],
                               utilization |->
                                   RMul(sim.edge_flow[e], Rat(1, capacity[e])),
                               flooded |-> flooded(sim.edge_flow[e], capacity[e])]]
    /\ UNCHANGED <<lon, lat, G_edges, edges, capacity>>
    /\ UNCHANGED plannerVars

\* ------------------------------------------------------------- A* search
\* The set of (from_node, to_node) built from the flood report.
flooded_edges == {<<fe.from_node, fe.to_node>> : fe \in Range(flood_results.flooded_edges)}

heuristic(node, goals) ==
    Min({10 * haversine_distance_km(get_node_coord(node), get_node_coord(goal)) :
            goal \in goals})

get_edge_cost_NoDiscount(from_node, to_node, is_new_edge) ==
    LET distance_km ==
            haversine_distance_km(get_node_coord(from_node), get_node_coord(to_node))
    IN IF is_new_edge
       THEN distance_km * NEW_EDGE_CONSTRUCTION_COST
       ELSE distance_km * EXISTING_EDGE_BASE_COST

get_edge_cost(from_node, to_node, is_new_edge) ==
    LET distance_km ==
            haversine_distance_km(get_node_coord(from_node), get_node_coord(to_node))
        base_cost == distance_km * EXISTING_EDGE_BASE_COST
    IN IF is_new_edge
       THEN distance_km * NEW_EDGE_CONSTRUCTION_COST
       ELSE IF <<from_node, to_node>> \in flooded_edges
            THEN (base_cost * FLOOD_TRAVERSAL_COST_MULTIPLIER) \div 10
            ELSE base_cost

\* get_neighbors without the "not already connected" test.
get_neighbors_ProposeToAdjacent(node) ==
    LET existing == {<<e[2], FALSE>> : e \in out_edges(node)}
        proposed ==
            {<<other_node, TRUE>> : other_node \in
                {o \in Nodes :
                    /\ o # node
                    /\ <<node, o>> \notin edges
                    /\ haversine_distance_km(get_node_coord(node), get_node_coord(o))
                           <= MAX_NEW_EDGE_DISTANCE_KM}}
    IN existing \cup proposed

\* The (neighbor, is_new_edge) pairs of a node.
get_neighbors(node) ==
    LET existing == {<<e[2], FALSE>> : e \in out_edges(node)}
        current_neighbors ==
            {e[2] : e \in out_edges(node)} \cup {e[1] : e \in in_edges(node)}
        proposed ==
            {<<other_node, TRUE>> : other_node \in
                {o \in Nodes :
                    /\ o # node
                    /\ o \notin current_neighbors
                    /\ haversine_distance_km(get_node_coord(node), get_node_coord(o))
                           <= MAX_NEW_EDGE_DISTANCE_KM}}
    IN existing \cup proposed

RECURSIVE ReconstructFrom(_, _, _)
ReconstructFrom(came_from, current, path) ==
    IF current \in DOMAIN came_from /\ Len(path) <= NumNodes
    THEN ReconstructFrom(came_from, came_from[current][1],
                         <<came_from[current][1]>> \o path)
    ELSE path

reconstruct_path(came_from, current) == ReconstructFrom(came_from, current, <<current>>)

IdleSearch ==
    [pc |-> "idle", start_node |-> 0, open_set |-> {}, open_set_hash |-> {},
     came_from |-> <<>>, g_score |-> <<>>, f_score |-> <<>>, iterations |-> 0,
     ret |-> <<>>]

\* The state of astar_find_path when it enters its loop.
StartSearch(start) ==
    [pc |-> "run", start_node |-> start,
     open_set |-> {<<0, start>>}, open_set_hash |-> {start},
     came_from |-> <<>>,
     g_score |-> Put(<<>>, start, 0),
     f_score |-> Put(<<>>, start, heuristic(start, goal_nodes)),
     iterations |-> 0, ret |-> <<>>]

\* tentative_g < g_score[neighbor], g_score defaulting to infinity.
Improves(s, tentative_g, neighbor) ==
    neighbor \notin DOMAIN s.g_score \/ tentative_g < s.g_score[neighbor]

tracked_OnceSeen(s, neighbor) == neighbor \in DOMAIN s.g_score

\* neighbor in open_set_hash: the node has an entry in the queue.
tracked(s, neighbor) == neighbor \in s.open_set_hash

\* One pass of the body of "for neighbor, is_new_edge in get_neighbors(current)".
Relax(s, current, nb) ==
    LET neighbor == nb[1]
        is_new_edge == nb[2]
        tentative_g == s.g_score[current] + get_edge_cost(current, neighbor, is_new_edge)
        f == tentative_g + heuristic(neighbor, goal_nodes)
    IN IF Improves(s, tentative_g, neighbor)
       THEN [s EXCEPT
                !.came_from = Put(@, neighbor, <<current, is_new_edge>>),
                !.g_score = Put(@, neighbor, tentative_g),
                !.f_score = Put(@, neighbor, f),
                !.open_set = IF tracked(s, neighbor) THEN @
                             ELSE @ \cup {<<f, neighbor>>},
                !.open_set_hash = @ \cup {neighbor}]
       ELSE s

\* The neighbours in the order the code visits them: existing edges, then
\* proposed ones in node order.
NeighborSeq(node) ==
    LET nbs == get_neighbors(node)
        key(nb) == (IF nb[2] THEN NumNodes ELSE 0) + nb[1]
        rank(nb) == Cardinality({o \in nbs : key(o) < key(nb)})
    IN [i \in 1..Cardinality(nbs) |-> CHOOSE nb \in nbs : rank(nb) = i - 1]

RECURSIVE Explore(_, _, _)
Explore(s, current, nbs) ==
    IF nbs = <<>> THEN s
    ELSE Explore(Relax(s, current, Head(nbs)), current, Tail(nbs))

\* (f, node) tuples compare as Python tuples do.
TupleLE(a, b) == a[1] < b[1] \/ (a[1] = b[1] /\ a[2] <= b[2])

\* A pop that takes any entry of least f, whatever its node.
heappop_AnyLeastF(open_set) == {e \in open_set : \A o \in open_set : e[1] <= o[1]}

\* heapq.heappop: the least entry of the queue.
heappop(open_set) == {e \in open_set : \A o \in open_set : TupleLE(e, o)}

\* The loop body returning the popped key in place of g_score[current].
LoopBody_ReturnsKey(s, e) ==
    LET current == e[2]
        popped == [s EXCEPT !.iterations = @ + 1,
                            !.open_set = @ \ {e},
                            !.open_set_hash = @ \ {current}]
    IN IF current \in goal_nodes
       THEN [popped EXCEPT
                !.pc = "found",
                !.ret = <<reconstruct_path(s.came_from, current), s.came_from,
                          e[1], current>>]
       ELSE Explore(popped, current, NeighborSeq(current))

\* One iteration of the while loop, having popped entry e.
LoopBody(s, e) ==
    LET current == e[2]
        popped == [s EXCEPT !.iterations = @ + 1,
                            !.open_set = @ \ {e},
                            !.open_set_hash = @ \ {current}]
    IN IF current \in goal_nodes
       THEN [popped EXCEPT
                !.pc = "found",
                !.ret = <<reconstruct_path(s.came_from, current), s.came_from,
                          s.g_score[current], current>>]
       ELSE Explore(popped, current, NeighborSeq(current))

\* The loop test with the ceiling off by one.
LoopGuard_OffByOne(s) == s.open_set # {} /\ s.iterations <= max_iterations

\* while open_set and iterations < max_iterations
LoopGuard(s) == s.open_set # {} /\ s.iterations < max_iterations

\* An iteration that pops a goal node and returns the path.
AstarReachGoal(r) ==
    /\ search[r].pc = "run"
    /\ LoopGuard(search[r])
    /\ \E e \in heappop(search[r].open_set) :
          /\ e[2] \in goal_nodes
          /\ search' = [search EXCEPT ![r] = LoopBody(search[r], e)]
    /\ UNCHANGED graphVars

\* An iteration that pops a node which is no goal and explores its neighbours.
AstarExpand(r) ==
    /\ search[r].pc = "run"
    /\ LoopGuard(search[r])
    /\ \E e \in heappop(search[r].open_set) :
          /\ e[2] \notin goal_nodes
          /\ search' = [search EXCEPT ![r] = LoopBody(search[r], e)]
    /\ UNCHANGED graphVars

\* The loop ends without a goal: return None, None, None, None.
AstarNoPath(r) ==
    /\ search[r].pc = "run"
    /\ ~LoopGuard(search[r])
    /\ search' = [search EXCEPT ![r].pc = "nopath",
                                ![r].ret = <<None, None, None, None>>]
    /\ UNCHANGED graphVars

\* ------------------------------------------------------------- planner inputs
\* ------------------------------------------------------------- planner
(* Money is counted in units of 0.025 million USD, so that a length in     *)
(* distance units times the rate per km is a whole number.                  *)
COST_PER_KM_USD_MILLIONS == 5

MIN_SEPARATION_KM == 40

\* float('inf'), as a fraction: greater than every other one under RLess.
Infinity == <<1, 0>>

is_new_FlagOfSource(came_from, from_node, to_node) ==
    IF from_node \in DOMAIN came_from THEN came_from[from_node][2] ELSE FALSE

\* came_from.get(to_node, (None, False))[1]
is_new(came_from, from_node, to_node) ==
    IF to_node \in DOMAIN came_from THEN came_from[to_node][2] ELSE FALSE

RECURSIVE SumDistance(_)
SumDistance(segments) ==
    IF segments = <<>> THEN 0
    ELSE Head(segments).distance_km + SumDistance(Tail(segments))

\* existing_edges, new_edges, total_distance
analyze_path(path, came_from) ==
    LET edge_info(i) ==
            [from_node |-> path[i],
             to_node |-> path[i + 1],
             from_coord |-> get_node_coord(path[i]),
             to_coord |-> get_node_coord(path[i + 1]),
             distance_km |->
                 haversine_distance_km(get_node_coord(path[i]), get_node_coord(path[i + 1])),
             is_new |-> is_new(came_from, path[i], path[i + 1])]
        all == [i \in 1..(Len(path) - 1) |-> edge_info(i)]
        new(e) == e.is_new
        existing(e) == ~e.is_new
    IN <<SelectSeq(all, existing), SelectSeq(all, new), SumDistance(all)>>

matches_FromNodeOnly(fe, u, v) == fe.from_node = u

\* if fe['from_node'] == u and fe['to_node'] == v
matches(fe, u, v) == fe.from_node = u /\ fe.to_node = v

\* The overflow of the first report entry for each path edge, summed.
flood_relief_volume(path) ==
    LET report == flood_results.flooded_edges
        hits(i) == {k \in 1..Len(report) : matches(report[k], path[i], path[i + 1])}
        relief(i) == IF hits(i) = {} THEN RInt(0) ELSE report[Min(hits(i))].overflow
    IN RSum([i \in 1..(Len(path) - 1) |-> relief(i)])

roi_ZeroWhenFree(relief_vol, cost_usd_m) ==
    IF cost_usd_m > 0 THEN RMul(relief_vol, Rat(1, cost_usd_m)) ELSE RInt(0)

\* flood_relief_volume / estimated_cost_usd_m if estimated_cost_usd_m > 0 else inf
roi(relief_vol, cost_usd_m) ==
    IF cost_usd_m > 0 THEN RMul(relief_vol, Rat(1, cost_usd_m)) ELSE Infinity

\* The record appended for an origin whose search returned a path.
SolutionFound(rank, start_node, ret) ==
    LET path == ret[1]
        analysis == analyze_path(path, ret[2])
        new_e == analysis[2]
        new_canal_length_km == SumDistance(new_e)
        estimated_cost_usd_m == new_canal_length_km * COST_PER_KM_USD_MILLIONS
        relief_vol == flood_relief_volume(path)
    IN [rank |-> rank,
        start_node |-> start_node,
        goal_nodes |-> goal_nodes,
        path_found |-> TRUE,
        path |-> path,
        cost |-> ret[3],
        reached_goal |-> ret[4],
        metrics |-> [new_length_km |-> new_canal_length_km,
                     cost_usd_m |-> estimated_cost_usd_m,
                     relief_vol |-> relief_vol,
                     roi |-> roi(relief_vol, estimated_cost_usd_m)],
        proposed_canals |->
            [k \in 1..Len(new_e) |->
                [from_node |-> new_e[k].from_node,
                 to_node |-> new_e[k].to_node,
                 from_coord |-> new_e[k].from_coord,
                 to_coord |-> new_e[k].to_coord,
                 distance_km |-> new_e[k].distance_km]]]

\* The record appended for an origin whose search returned no path.
SolutionFailed(rank, start_node) ==
    [rank |-> rank,
     start_node |-> start_node,
     goal_nodes |-> goal_nodes,
     path_found |-> FALSE,
     path |-> <<>>,
     cost |-> 0,
     reached_goal |-> None,
     metrics |-> [new_length_km |-> 0, cost_usd_m |-> 0, relief_vol |-> RInt(0),
                  roi |-> RInt(0)],
     proposed_canals |-> <<>>]

\* The body of the origin loop after the search has returned.
Solution(rank, start_node, s) ==
    IF s.pc = "found"
    THEN SolutionFound(rank, start_node, s.ret)
    ELSE SolutionFailed(rank, start_node)

\* The flood report sorted by overflow, largest first; sorted() is stable.
worst_floods ==
    LET report == flood_results.flooded_edges
        before(j, i) ==
            \/ RLess(report[i].overflow, report[j].overflow)
            \/ (report[j].overflow = report[i].overflow /\ j < i)
        position(i) == Cardinality({j \in DOMAIN report : before(j, i)}) + 1
    IN [k \in 1..Len(report) |-> report[CHOOSE i \in DOMAIN report : position(i) = k]]

is_far_enough_Always(candidate_node, selected, min_separation_km) == TRUE

\* No selected point is closer to the candidate than the minimum separation.
is_far_enough(candidate_node, selected, min_separation_km) ==
    \A k \in 1..Len(selected) :
        ~(haversine_distance_km(get_node_coord(candidate_node),
                                get_node_coord(selected[k].from_node))
            < min_separation_km)

(* The greedy selection of flood points that are far enough from those     *)
(* selected, up to max_flood_points of them.                               *)
RECURSIVE SelectFloodPoints(_, _, _, _)
SelectFloodPoints(todo, selected, min_separation_km, max_flood_points) ==
    IF todo = <<>> \/ Len(selected) >= max_flood_points
    THEN selected
    ELSE LET fe == Head(todo)
         IN SelectFloodPoints(Tail(todo),
                              IF is_far_enough(fe.from_node, selected, min_separation_km)
                              THEN Append(selected, fe)
                              ELSE selected,
                              min_separation_km, max_flood_points)

\* Selection of the flood origins.
PlannerSelect ==
    /\ planner.pc = "select"
    /\ planner' = [planner EXCEPT
                      !.pc = "loop",
                      !.selected_flood_points =
                          SelectFloodPoints(worst_floods, <<>>, planner.min_separation_km,
                                            planner.max_flood_points)]
    /\ UNCHANGED <<lon, lat, G_edges, edges, capacity, sim, flood_results, edge_flow_data>>
    /\ UNCHANGED <<goal_nodes, max_iterations, search, build, server>>

\* The origin loop calls astar_find_path for the next selected origin.
PlannerSearch ==
    /\ planner.pc = "loop"
    /\ planner.i < Len(planner.selected_flood_points)
    /\ search' = [search EXCEPT
                     ![1] = StartSearch(planner.selected_flood_points[planner.i + 1].from_node)]
    /\ planner' = [planner EXCEPT !.pc = "search"]
    /\ UNCHANGED <<lon, lat, G_edges, edges, capacity, sim, flood_results, edge_flow_data>>
    /\ UNCHANGED <<goal_nodes, max_iterations, build, server>>

keeps_going_StopOnFailure(s) == s.pc = "found"

\* The loop goes on to the next origin whatever the search returned.
keeps_going(s) == TRUE

\* The search has returned: one record is appended, found or not.
PlannerRecord ==
    /\ planner.pc = "search"
    /\ search[1].pc \in {"found", "nopath"}
    /\ planner' = [planner EXCEPT
                      !.pc = "loop",
                      !.i = IF keeps_going(search[1])
                            THEN @ + 1
                            ELSE Len(planner.selected_flood_points),
                      !.solutions =
                          Append(@, Solution(planner.i + 1, search[1].start_node, search[1]))]
    /\ UNCHANGED <<lon, lat, G_edges, edges, capacity, sim, flood_results, edge_flow_data>>
    /\ UNCHANGED <<goal_nodes, max_iterations, search, build, server>>

\* The successful records, by ROI, largest first; sort() is stable.
successful_solutions(solutions) ==
    LET found(sol) == sol.path_found
        kept == SelectSeq(solutions, found)
        before(j, i) ==
            \/ RLess(kept[i].metrics.roi, kept[j].metrics.roi)
            \/ (kept[j].metrics.roi = kept[i].metrics.roi /\ j < i)
        position(i) == Cardinality({j \in DOMAIN kept : before(j, i)}) + 1
    IN [k \in 1..Len(kept) |-> kept[CHOOSE i \in DOMAIN kept : position(i) = k]]

\* The results file and the totals of the design report.
PlannerReport ==
    /\ planner.pc = "loop"
    /\ planner.i >= Len(planner.selected_flood_points)
    /\ LET ranked == successful_solutions(planner.solutions)
       IN planner' = [planner EXCEPT
                         !.pc = "done",
                         !.successful_solutions = ranked,
                         !.total_investment =
                             SumDistance([k \in DOMAIN ranked |->
                                             [distance_km |-> ranked[k].metrics.cost_usd_m]]),
                         !.total_relief =
                             RSum([k \in DOMAIN ranked |-> ranked[k].metrics.relief_vol]),
                         !.total_new_km =
                             SumDistance([k \in DOMAIN ranked |->
                                             [distance_km |-> ranked[k].metrics.new_length_km]])]
    /\ UNCHANGED <<lon, lat, G_edges, edges, capacity, sim, flood_results, edge_flow_data>>
    /\ UNCHANGED <<goal_nodes, max_iterations, search, build, server>>

NodePairs == {p \in Nodes \X Nodes : p[1] < p[2]}

\* (lon, lat) of u before that of v, longitude first.
CoordLess(u, v) == lon[u] < lon[v] \/ (lon[u] = lon[v] /\ lat[u] < lat[v])

(* The number of outlet candidates is a tunable of the planner, set to     *)
(* NUM_GOALS in the code; a graph of NumNodes nodes has fewer sinks than   *)
(* that, so the model also runs the planner with the single westernmost    *)
(* sink as its goal, which is what leaves some sinks outside the goal set. *)
GoalCounts == {1, NUM_GOALS}

(* A flood report that lists the given edges, each carrying the rainfall   *)
(* of its upstream node, which is over its capacity.                        *)
ReportSeq(report) ==
    LET position(e) ==
            Cardinality({o \in report : o[1] < e[1] \/ (o[1] = e[1] /\ o[2] < e[2])}) + 1
    IN [i \in 1..Cardinality(report) |->
          LET e == CHOOSE o \in report : position(o) = i
          IN [from_node |-> e[1], to_node |-> e[2],
              flow |-> calculate_rainfall(e[1], e[1] \in source_nodes),
              capacity |-> DEFAULT_CAPACITY,
              overflow |->
                  RSub(calculate_rainfall(e[1], e[1] \in source_nodes),
                       RInt(DEFAULT_CAPACITY))]]

(* Graphs the flow simulation can hand over: distinct node positions, at   *)
(* most one edge per node pair, oriented by OrientEdge.  Node identifiers  *)
(* are numbered along the grid, west to east or east to west, so that a    *)
(* tie between two nodes is met with either of them the smaller one.       *)
GraphInit ==
    /\ lon \in [Nodes -> Lons]
    /\ lat \in [Nodes -> Lats]
    /\ \/ \A p \in NodePairs : CoordLess(p[1], p[2])
       \/ \A p \in NodePairs : CoordLess(p[2], p[1])
    /\ \E undirected \in SUBSET NodePairs :
          /\ Cardinality(undirected) <= MaxEdges
          /\ G_edges = [p \in undirected |-> DEFAULT_CAPACITY]
          /\ edges = {OrientEdge(p[1], p[2]) : p \in undirected}
    /\ capacity = [e \in edges |-> DEFAULT_CAPACITY]
    /\ sim = IdleSim
    /\ edge_flow_data = <<>>
    /\ build = IdleBuild
    /\ server = IdleServer
    /\ \E report \in SUBSET edges :
          /\ report # {}
          /\ Cardinality(report) <= MaxFlooded
          /\ flood_results =
                [flooded_edge_count |-> Cardinality(report),
                 flooded_edges |-> ReportSeq(report)]
    /\ \E count \in GoalCounts : goal_nodes = WesternmostSinks(count)

FloodOrigins == {e[1] : e \in flooded_edges}

\* One search per flood origin, with the ceiling of the code.
InitAstar ==
    /\ GraphInit
    /\ max_iterations = MAX_ITERATIONS
    /\ \E start \in FloodOrigins :
          search = [r \in Runs |-> IF r = 1 THEN StartSearch(start) ELSE IdleSearch]
    /\ planner = IdlePlanner

NextAstar ==
    \/ AstarReachGoal(1)
    \/ AstarExpand(1)
    \/ AstarNoPath(1)

SpecAstar == InitAstar /\ [][NextAstar]_vars

(* The iteration ceiling is a tunable of the planner, set to               *)
(* MAX_ITERATIONS in the code, which no search over NumNodes nodes         *)
(* reaches; SpecCeiling also runs the same loop with ceilings              *)
(* 1..MaxCeiling.                                                           *)
MaxCeiling == 2

InitCeiling ==
    /\ GraphInit
    /\ max_iterations \in (1..MaxCeiling) \cup {MAX_ITERATIONS}
    /\ \E start \in FloodOrigins :
          search = [r \in Runs |-> IF r = 1 THEN StartSearch(start) ELSE IdleSearch]
    /\ planner = IdlePlanner

SpecCeiling == InitCeiling /\ [][NextAstar]_vars

\* The same search run a second time, after the first has returned.
AstarRepeat ==
    /\ search[1].pc \in {"found", "nopath"}
    /\ search[2].pc = "idle"
    /\ search' = [search EXCEPT ![2] = StartSearch(search[1].start_node)]
    /\ UNCHANGED graphVars

NextRepeat ==
    \/ NextAstar
    \/ AstarRepeat
    \/ AstarReachGoal(2)
    \/ AstarExpand(2)
    \/ AstarNoPath(2)

SpecRepeat == InitAstar /\ [][NextRepeat]_vars

\* ------------------------------------------------------------- planner runs
(* The minimum separation of flood origins is a tunable of the planner,    *)
(* set to MIN_SEPARATION_KM in the code, which is more than the grid       *)
(* spans; the model also runs the selection with half of it, which two     *)
(* nodes two columns apart satisfy.                                         *)
Separations == {MIN_SEPARATION_KM \div 2, MIN_SEPARATION_KM}

\* The ceilings the planner is run with: one that cuts searches short, and the code's.
PlannerCeilings == {MaxCeiling, MAX_ITERATIONS}

InitPlanner ==
    /\ GraphInit
    /\ max_iterations \in PlannerCeilings
    /\ search = [r \in Runs |-> IdleSearch]
    /\ \E separation \in Separations :
          planner = [IdlePlanner EXCEPT !.pc = "select", !.min_separation_km = separation]

NextPlanner ==
    \/ PlannerSelect
    \/ PlannerSearch
    \/ NextAstar
    \/ PlannerRecord
    \/ PlannerReport

SpecPlanner == InitPlanner /\ [][NextPlanner]_vars

(* The number of flood points selected at most is a tunable of the         *)
(* planner, set to MAX_FLOOD_POINTS in the code, which is more than a      *)
(* report of MaxFlooded edges holds; the model also runs the selection     *)
(* with room for a single point.  The separation is the one that two nodes *)
(* two columns apart satisfy and two neighbours do not.                    *)
FloodPointCaps == {1, MAX_FLOOD_POINTS}

InitSelect ==
    /\ GraphInit
    /\ max_iterations = MAX_ITERATIONS
    /\ search = [r \in Runs |-> IdleSearch]
    /\ \E cap \in FloodPointCaps :
          planner = [IdlePlanner EXCEPT !.pc = "select",
                                        !.min_separation_km = MIN_SEPARATION_KM \div 2,
                                        !.max_flood_points = cap]

SpecSelect == InitSelect /\ [][NextPlanner]_vars

\* ------------------------------------------------------------- origins in any order
(* The searches of the selected origins taken in any order and with their  *)
(* iterations interleaved: search r is one call of astar_find_path, whose   *)
(* queue, scores and parent map are locals created by the call.            *)
call_astar_find_path_SharedScores(other, start_node) ==
    [StartSearch(start_node) EXCEPT !.g_score = Put(other.g_score, start_node, 0)]

\* The locals of a call, given the state of the other call in progress.
call_astar_find_path(other, start_node) == StartSearch(start_node)

\* The origins whose search has been started.
StartedOrigins == {search[r].start_node : r \in {q \in Runs : search[q].pc # "idle"}}

\* The position of an origin in the selection.
RankOf(start_node) ==
    CHOOSE k \in DOMAIN planner.selected_flood_points :
        planner.selected_flood_points[k].from_node = start_node

\* A call of astar_find_path for any origin that has not been taken yet.
OrderSearch(r) ==
    /\ planner.pc = "loop"
    /\ search[r].pc = "idle"
    /\ \E k \in DOMAIN planner.selected_flood_points :
          LET start_node == planner.selected_flood_points[k].from_node
          IN /\ start_node \notin StartedOrigins
             /\ search' = [search EXCEPT
                              ![r] = call_astar_find_path(search[CHOOSE q \in Runs : q # r],
                                                          start_node)]
    /\ UNCHANGED graphVars

\* The record of a search that has returned, appended when it returns.
OrderRecord(r) ==
    /\ planner.pc = "loop"
    /\ search[r].pc \in {"found", "nopath"}
    /\ \A k \in DOMAIN planner.solutions :
          planner.solutions[k].start_node # search[r].start_node
    /\ planner' = [planner EXCEPT
                      !.i = @ + 1,
                      !.solutions =
                          Append(@, Solution(RankOf(search[r].start_node),
                                             search[r].start_node, search[r]))]
    /\ UNCHANGED <<lon, lat, G_edges, edges, capacity, sim, flood_results, edge_flow_data>>
    /\ UNCHANGED <<goal_nodes, max_iterations, search, build, server>>

NextOrder ==
    \/ PlannerSelect
    \/ \E r \in Runs : OrderSearch(r)
    \/ \E r \in Runs : AstarReachGoal(r)
    \/ \E r \in Runs : AstarExpand(r)
    \/ \E r \in Runs : AstarNoPath(r)
    \/ \E r \in Runs : OrderRecord(r)

SpecOrder == InitPlanner /\ [][NextOrder]_vars

\* ------------------------------------------------------------- one flooded edge
(* The planner run on a graph of four nodes with a single entry in the     *)
(* flood report: an edge A -> B of capacity 10 that carries 25, where no   *)
(* node is east of A, no node is west of D, D is a sink and the only goal, *)
(* and B and D are not adjacent.                                           *)
ScenarioReport(A, B) ==
    [flooded_edge_count |-> 1,
     flooded_edges |->
         <<[from_node |-> A, to_node |-> B, flow |-> RInt(25),
            capacity |-> CAPACITY_BY_TYPE["ditch"], overflow |-> RInt(15)]>>]

InitScenario ==
    /\ lon \in [Nodes -> Lons]
    /\ lat \in [Nodes -> Lats]
    /\ \/ \A p \in NodePairs : CoordLess(p[1], p[2])
       \/ \A p \in NodePairs : CoordLess(p[2], p[1])
    /\ \E undirected \in SUBSET NodePairs :
          /\ Cardinality(undirected) <= MaxEdges
          /\ G_edges = [p \in undirected |-> CAPACITY_BY_TYPE["ditch"]]
          /\ edges = {OrientEdge(p[1], p[2]) : p \in undirected}
    /\ capacity = [e \in edges |-> CAPACITY_BY_TYPE["ditch"]]
    /\ sim = IdleSim
    /\ edge_flow_data = <<>>
    /\ build = IdleBuild
    /\ server = IdleServer
    /\ \E A \in Nodes, B \in Nodes, D \in Nodes :
          /\ Cardinality({A, B, D}) = 3
          /\ \A n \in Nodes : lon[n] <= lon[A] /\ lon[D] <= lon[n]
          /\ lon[D] < lon[A]
          /\ <<A, B>> \in edges
          /\ <<B, D>> \notin edges
          /\ D \in sink_nodes
          /\ goal_nodes = {D}
          /\ flood_results = ScenarioReport(A, B)
    /\ max_iterations = MAX_ITERATIONS
    /\ search = [r \in Runs |-> IdleSearch]
    /\ planner = [IdlePlanner EXCEPT !.pc = "select",
                                     !.min_separation_km = MIN_SEPARATION_KM]

SpecScenario == InitScenario /\ [][NextPlanner]_vars

\* ------------------------------------------------------------- dashboard server
(* run_simulation runs four stage processes one after the other; each      *)
(* request is served by its own thread and there is no lock.  A stage is   *)
(* the list of the "with open(...)" blocks of its script on the shared     *)
(* artifacts, in program order.                                            *)
flow_simulation_py ==
    <<[kind |-> "read", file |-> "attanagalu_working_graph.pkl"],
      [kind |-> "write", file |-> "flood_simulation_results.json"],
      [kind |-> "write", file |-> "edge_flows.json"],
      [kind |-> "write", file |-> "attanagalu_directed_graph.pkl"]>>

astar_pathfinding_py ==
    <<[kind |-> "read", file |-> "attanagalu_directed_graph.pkl"],
      [kind |-> "read", file |-> "flood_simulation_results.json"],
      [kind |-> "write", file |-> "astar_results.json"],
      [kind |-> "write", file |-> "design_report.md"]>>

visualise_astar_py ==
    <<[kind |-> "read", file |-> "attanagalu_directed_graph.pkl"],
      [kind |-> "read", file |-> "astar_results.json"],
      [kind |-> "read", file |-> "flood_simulation_results.json"]>>

visualise_flooding_py ==
    <<[kind |-> "read", file |-> "attanagalu_directed_graph.pkl"],
      [kind |-> "read", file |-> "flood_simulation_results.json"],
      [kind |-> "read", file |-> "edge_flows.json"]>>

commands ==
    <<flow_simulation_py, astar_pathfinding_py, visualise_astar_py, visualise_flooding_py>>

\* The file block the stage process of request r is in.
CurrentOp(r) == commands[server[r].stage][server[r].op]

Accesses(r, kind, file) ==
    /\ server[r].busy
    /\ CurrentOp(r).kind = kind
    /\ CurrentOp(r).file = file

(* The values of the intensity parameter of a request; the second is the   *)
(* default of request.args.get.                                            *)
Intensities == {50, 100}

(* GET /api/simulate: the first stage process is started, with the         *)
(* intensity of the request on its command line.                           *)
Simulate(r) ==
    /\ server[r].pc = "idle"
    /\ \E intensity \in Intensities :
          server' = [server EXCEPT ![r] = [@ EXCEPT !.pc = "running", !.stage = 1,
                                                    !.intensity = intensity,
                                                    !.started = <<1>>]]
    /\ UNCHANGED <<lon, lat, G_edges, edges, capacity, sim, flood_results, edge_flow_data>>
    /\ UNCHANGED <<goal_nodes, max_iterations, search, build, planner>>

(* The stage process opens its next file.  A file opened for reading while *)
(* another process is rewriting it, or rewritten while another process is  *)
(* reading it, is read torn.                                               *)
OpenFile(r) ==
    /\ server[r].pc = "running"
    /\ ~server[r].busy
    /\ server[r].op < Len(commands[server[r].stage])
    /\ LET next == commands[server[r].stage][server[r].op + 1]
       IN server' =
             [q \in Requests |->
                 IF q = r
                 THEN [server[r] EXCEPT
                          !.op = @ + 1,
                          !.busy = TRUE,
                          !.torn = @ \/ (next.kind = "read" /\
                                         \E o \in Requests \ {r} :
                                             Accesses(o, "write", next.file))]
                 ELSE [server[q] EXCEPT
                          !.torn = @ \/ (next.kind = "write" /\
                                         Accesses(q, "read", next.file))]]
    /\ UNCHANGED <<lon, lat, G_edges, edges, capacity, sim, flood_results, edge_flow_data>>
    /\ UNCHANGED <<goal_nodes, max_iterations, search, build, planner>>

\* The end of the "with" block.
CloseFile(r) ==
    /\ server[r].pc = "running"
    /\ server[r].busy
    /\ server' = [server EXCEPT ![r].busy = FALSE]
    /\ UNCHANGED <<lon, lat, G_edges, edges, capacity, sim, flood_results, edge_flow_data>>
    /\ UNCHANGED <<goal_nodes, max_iterations, search, build, planner>>

\* The request goes on to the next command, or yields SIMULATION_COMPLETE.
next_command(s) ==
    IF s.stage = Len(commands)
    THEN [s EXCEPT !.pc = "complete",
                   !.events = Append(@, [event |-> "SIMULATION_COMPLETE", stage |-> 0])]
    ELSE [s EXCEPT !.stage = @ + 1, !.op = 0, !.torn = FALSE,
                   !.started = Append(@, s.stage + 1)]

on_error_NextCommand(s) == next_command(s)

\* if process.returncode != 0: the error line is yielded and generate returns.
on_error(s) ==
    [s EXCEPT !.pc = "error",
              !.events = Append(@, [event |-> "Error executing", stage |-> s.stage])]

\* process.wait() with return code 0: the next command, or SIMULATION_COMPLETE.
StageExit(r) ==
    /\ server[r].pc = "running"
    /\ ~server[r].busy
    /\ server[r].op = Len(commands[server[r].stage])
    /\ server' =
          [server EXCEPT
              ![r] = next_command([@ EXCEPT !.returncodes = Append(@, 0)])]
    /\ UNCHANGED <<lon, lat, G_edges, edges, capacity, sim, flood_results, edge_flow_data>>
    /\ UNCHANGED <<goal_nodes, max_iterations, search, build, planner>>

(* process.wait() with a non-zero return code: the script raised, at the   *)
(* loader of a torn file or on its input (a working graph without edges or *)
(* with an edge of capacity zero stops flow_simulation.py).  The request   *)
(* ends and the remaining commands are not run.                            *)
StageError(r) ==
    /\ server[r].pc = "running"
    /\ ~server[r].busy
    /\ server' =
          [server EXCEPT
              ![r] = on_error([@ EXCEPT !.returncodes = Append(@, 1)])]
    /\ UNCHANGED <<lon, lat, G_edges, edges, capacity, sim, flood_results, edge_flow_data>>
    /\ UNCHANGED <<goal_nodes, max_iterations, search, build, planner>>

\* The server before any request, with the artifacts of an earlier run on disk.
InitServer ==
    /\ lon = [n \in Nodes |-> 0]
    /\ lat = [n \in Nodes |-> 0]
    /\ G_edges = <<>>
    /\ edges = {}
    /\ capacity = <<>>
    /\ sim = IdleSim
    /\ flood_results = NoReport
    /\ edge_flow_data = <<>>
    /\ goal_nodes = {}
    /\ max_iterations = MAX_ITERATIONS
    /\ search = [r \in Runs |-> IdleSearch]
    /\ build = IdleBuild
    /\ planner = IdlePlanner
    /\ server = IdleServer

NextServer ==
    \/ \E r \in Requests : Simulate(r)
    \/ \E r \in Requests : OpenFile(r)
    \/ \E r \in Requests : CloseFile(r)
    \/ \E r \in Requests : StageExit(r)
    \/ \E r \in Requests : StageError(r)

SpecServer == InitServer /\ [][NextServer]_vars

\* ------------------------------------------------------------- flow runs
\* The waterway types of the working graphs the simulation is run on.
FlowTypes == {"ditch", "dam"}

(* A working graph as the graph builder leaves it: distinct node           *)
(* positions, at most one edge per node pair, each edge with the capacity  *)
(* of its waterway type.                                                    *)
InitFlow ==
    /\ lon \in [Nodes -> Lons]
    /\ lat \in [Nodes -> Lats]
    /\ \/ \A p \in NodePairs : CoordLess(p[1], p[2])
       \/ \A p \in NodePairs : CoordLess(p[2], p[1])
    /\ \E undirected \in SUBSET NodePairs :
          /\ Cardinality(undirected) <= MaxEdges
          /\ G_edges \in [undirected -> {CAPACITY_BY_TYPE[t] : t \in FlowTypes}]
    /\ edges = {}
    /\ capacity = <<>>
    /\ sim = IdleSim
    /\ flood_results = NoReport
    /\ edge_flow_data = <<>>
    /\ goal_nodes = {}
    /\ max_iterations = MAX_ITERATIONS
    /\ search = [r \in Runs |-> IdleSearch]
    /\ build = IdleBuild
    /\ planner = IdlePlanner
    /\ server = IdleServer

NextFlow ==
    \/ FlowSetup
    \/ \E node \in Nodes : ProcessNode(node)
    \/ FlowSave

SpecFlow == InitFlow /\ [][NextFlow]_vars

(* Working graphs in which an edge may carry the capacity 0: the           *)
(* simulation takes the capacity of an edge from the pickled graph as it   *)
(* is, data.get('capacity', 15).                                            *)
ZeroCapacities == {0, CAPACITY_BY_TYPE["ditch"]}

InitFlowZero ==
    /\ lon \in [Nodes -> Lons]
    /\ lat \in [Nodes -> Lats]
    /\ \/ \A p \in NodePairs : CoordLess(p[1], p[2])
       \/ \A p \in NodePairs : CoordLess(p[2], p[1])
    /\ \E undirected \in SUBSET NodePairs :
          /\ Cardinality(undirected) <= MaxEdges
          /\ G_edges \in [undirected -> ZeroCapacities]
    /\ edges = {}
    /\ capacity = <<>>
    /\ sim = IdleSim
    /\ flood_results = NoReport
    /\ edge_flow_data = <<>>
    /\ goal_nodes = {}
    /\ max_iterations = MAX_ITERATIONS
    /\ search = [r \in Runs |-> IdleSearch]
    /\ build = IdleBuild
    /\ planner = IdlePlanner
    /\ server = IdleServer

SpecFlowZero == InitFlowZero /\ [][NextFlow]_vars

(* A request to /api/simulate and the flow simulation it starts as its     *)
(* first stage process: flow_simulation.py runs with the intensity of the  *)
(* request on its command line.                                            *)
FlowStage(r) ==
    /\ server[r].pc = "running"
    /\ server[r].stage = 1
    /\ NextFlow

NextIntensity ==
    \/ Simulate(1)
    \/ FlowStage(1)

SpecIntensity == InitFlow /\ [][NextIntensity]_vars

(* Working graphs read from a graph file that the graph builder did not    *)
(* write: a node may carry an edge to itself, which is what puts a cycle   *)
(* into the directed graph.  Every edge is a ditch.                        *)
SelfLoops == {<<n, n>> : n \in Nodes}

InitFlowLoop ==
    /\ lon \in [Nodes -> Lons]
    /\ lat \in [Nodes -> Lats]
    /\ \/ \A p \in NodePairs : CoordLess(p[1], p[2])
       \/ \A p \in NodePairs : CoordLess(p[2], p[1])
    /\ \E undirected \in SUBSET (NodePairs \cup SelfLoops) :
          /\ Cardinality(undirected) <= MaxEdges
          /\ undirected \cap SelfLoops # {}
          /\ G_edges = [p \in undirected |-> CAPACITY_BY_TYPE["ditch"]]
    /\ edges = {}
    /\ capacity = <<>>
    /\ sim = IdleSim
    /\ flood_results = NoReport
    /\ edge_flow_data = <<>>
    /\ goal_nodes = {}
    /\ max_iterations = MAX_ITERATIONS
    /\ search = [r \in Runs |-> IdleSearch]
    /\ build = IdleBuild
    /\ planner = IdlePlanner
    /\ server = IdleServer

SpecFlowLoop == InitFlowLoop /\ [][NextFlow]_vars

\* ------------------------------------------------------------- builder runs
\* The waterway tags of the segments: a listed type and an unlisted one.
BuildTypes == {"dam", "weir"}

WaterwayNames == <<"Attanagalu Oya", "Dandugam Oya">>

\* Each segment is a line of two coordinates with a waterway tag and a name.
InitBuild ==
    /\ \E ends \in [1..NumWaterways -> Points \X Points] :
       \E tags \in [1..NumWaterways -> BuildTypes] :
          build = [IdleBuild EXCEPT
                      !.pc = "load",
                      !.linear =
                          [w \in 1..NumWaterways |->
                              [coords |-> <<ends[w][1], ends[w][2]>>,
                               waterway |-> tags[w],
                               name |-> WaterwayNames[((w - 1) % Len(WaterwayNames)) + 1],
                               id |-> w - 1]]]
    /\ lon = <<>>
    /\ lat = <<>>
    /\ G_edges = <<>>
    /\ edges = {}
    /\ capacity = <<>>
    /\ sim = IdleSim
    /\ flood_results = NoReport
    /\ edge_flow_data = <<>>
    /\ goal_nodes = {}
    /\ max_iterations = MAX_ITERATIONS
    /\ search = [r \in Runs |-> IdleSearch]
    /\ planner = IdlePlanner
    /\ server = IdleServer

NextBuild ==
    \/ BuildExtract
    \/ \E i, j \in 0..(2 * NumWaterways - 1) : BuildUnion(i, j)
    \/ BuildCluster
    \/ BuildEdges

SpecBuild == InitBuild /\ [][NextBuild]_vars

\* ------------------------------------------------------------- reference
(* The hybrid graph of the planner: from u there is one edge to every      *)
(* get_neighbors(u) entry, costed by get_edge_cost.  Edge costs are not    *)
(* negative, so a cheapest path can be taken without a repeated node.      *)
SimplePaths ==
    {p \in UNION {[1..k -> Nodes] : k \in 1..NumNodes} :
        \A i, j \in DOMAIN p : i # j => p[i] # p[j]}

\* The hybrid edge u -> v as a set: its (neighbor, is_new_edge) entry, if any.
HybridEdge(u, v) == {nb \in get_neighbors(u) : nb[1] = v}

IsHybridPath(p) == \A i \in 1..(Len(p) - 1) : HybridEdge(p[i], p[i + 1]) # {}

RECURSIVE HybridPathCost(_)
HybridPathCost(p) ==
    IF Len(p) <= 1 THEN 0
    ELSE LET nb == CHOOSE x \in HybridEdge(p[1], p[2]) : TRUE
         IN get_edge_cost(p[1], p[2], nb[2]) + HybridPathCost(Tail(p))

PathsToGoal(n) ==
    {p \in SimplePaths : p[1] = n /\ p[Len(p)] \in goal_nodes /\ IsHybridPath(p)}

\* The least total cost of a path from n to a goal node, when there is one.
CostToGoal(n) == Min({HybridPathCost(p) : p \in PathsToGoal(n)})

Found(r) == search[r].pc = "found"

NoPath(r) == search[r].pc = "nopath"

Done(r) == Found(r) \/ NoPath(r)

\* ------------------------------------------------------------- C1
(* C1: when astar_find_path succeeds, the returned cost is the minimum     *)
(* total cost over all paths from the origin to any goal node in the       *)
(* hybrid graph.                                                           *)
C1_ReturnedCostIsMinimum ==
    \A r \in Runs : Found(r) => search[r].ret[3] = CostToGoal(search[r].start_node)

\* ------------------------------------------------------------- C2
(* C2: a search pops at most max_iterations entries; when the loop ends    *)
(* without a goal popped (queue empty or ceiling reached) it returns       *)
(* (None, None, None, None), and what it returns otherwise is a whole path *)
(* to a goal; with a ceiling of 1 and an origin that is no goal it returns *)
(* no path.                                                                *)
C2_CeilingAndNoPath ==
    \A r \in Runs :
        LET s == search[r] IN
        /\ s.iterations <= max_iterations
        /\ (s.pc = "run" /\ s.iterations = max_iterations)
              => ~ENABLED (AstarExpand(r) \/ AstarReachGoal(r))
        /\ s.pc = "run" => s.ret = <<>>
        /\ NoPath(r) =>
              /\ s.ret = <<None, None, None, None>>
              /\ s.open_set = {} \/ s.iterations = max_iterations
        /\ Found(r) =>
              /\ s.ret[4] \in goal_nodes
              /\ s.ret[1][1] = s.start_node
              /\ s.ret[1][Len(s.ret[1])] = s.ret[4]
        /\ (max_iterations = 1 /\ s.start_node \notin goal_nodes) => ~Found(r)

\* The ceiling of 1 stops a search whose queue still holds entries.
C2_Witness ==
    /\ NoPath(1)
    /\ max_iterations = 1
    /\ search[1].iterations = 1
    /\ search[1].open_set # {}

\* ------------------------------------------------------------- C3
(* C3: a returned path starts at the origin and ends at the returned goal, *)
(* which is in the goal set; each consecutive pair (u, v) is the parent    *)
(* entry of v, and is an existing edge u -> v when flagged existing, and   *)
(* when flagged new joins distinct nodes, adjacent in neither direction,   *)
(* at most MAX_NEW_EDGE_DISTANCE_KM apart.                                 *)
C3_Segment(came_from, u, v) ==
    /\ v \in DOMAIN came_from
    /\ came_from[v][1] = u
    /\ IF came_from[v][2]
       THEN /\ u # v
            /\ <<u, v>> \notin edges
            /\ <<v, u>> \notin edges
            /\ haversine_distance_km(get_node_coord(u), get_node_coord(v))
                   <= MAX_NEW_EDGE_DISTANCE_KM
       ELSE <<u, v>> \in edges

C3_PathIsValid ==
    \A r \in Runs :
        Found(r) =>
            LET path == search[r].ret[1]
                came_from == search[r].ret[2]
            IN /\ path[1] = search[r].start_node
               /\ path[Len(path)] = search[r].ret[4]
               /\ search[r].ret[4] \in goal_nodes
               /\ \A i \in 1..(Len(path) - 1) : C3_Segment(came_from, path[i], path[i + 1])

\* A returned path with an existing and a proposed segment.
C3_Witness ==
    /\ Found(1)
    /\ \E i, j \in 2..Len(search[1].ret[1]) :
          /\ search[1].ret[2][search[1].ret[1][i]][2]
          /\ ~search[1].ret[2][search[1].ret[1][j]][2]

\* ------------------------------------------------------------- C4
(* C4: for every node that can reach a goal, the heuristic does not exceed *)
(* the least remaining cost to a goal under the planner's edge costs.      *)
C4_HeuristicAdmissible ==
    \A n \in Nodes :
        PathsToGoal(n) # {} => heuristic(n, goal_nodes) <= CostToGoal(n)

ReportedEdges(report) == {<<fe.from_node, fe.to_node>> : fe \in Range(report)}

(* C6: an edge is in the flood report, and marked flooded in the edge-flow *)
(* output, if and only if its recorded flow is strictly greater than its   *)
(* capacity; a reported edge is listed once, with its recorded flow and    *)
(* capacity, and its overflow is flow minus capacity, which is positive.   *)
C6_FloodFlagConsistent ==
    /\ \A e \in DOMAIN sim.edge_flow :
          e \in ReportedEdges(sim.flooded_edges)
              <=> sim.edge_flow[e][1] > capacity[e] * sim.edge_flow[e][2]
    /\ \A i \in 1..Len(sim.flooded_edges) :
          LET fe == sim.flooded_edges[i]
              e == <<fe.from_node, fe.to_node>>
          IN /\ e \in DOMAIN sim.edge_flow
             /\ fe.flow = sim.edge_flow[e]
             /\ fe.capacity = capacity[e]
             /\ RAdd(fe.overflow, RInt(fe.capacity)) = fe.flow
             /\ fe.overflow[1] > 0
             /\ \A j \in 1..Len(sim.flooded_edges) :
                   <<sim.flooded_edges[j].from_node, sim.flooded_edges[j].to_node>> = e
                       => j = i
    /\ sim.pc = "saved" =>
          /\ flood_results.flooded_edges = sim.flooded_edges
          /\ DOMAIN edge_flow_data = edges
          /\ \A e \in edges :
                /\ edge_flow_data[e].flow = sim.edge_flow[e]
                /\ edge_flow_data[e].flooded
                      <=> e \in ReportedEdges(flood_results.flooded_edges)

\* Both files written, with an edge over its capacity and an edge exactly at it.
C6_Witness ==
    /\ sim.pc = "saved"
    /\ flood_results.flooded_edges # <<>>
    /\ \E e \in edges :
          /\ edge_flow_data[e].flow = RInt(capacity[e])
          /\ ~edge_flow_data[e].flooded

\* The flows recorded so far on the outgoing edges of a node, summed.
OutFlowSum(n) ==
    RSumOver(out_edges(n) \cap DOMAIN sim.edge_flow, sim.edge_flow)

\* A node's rainfall plus the capacity-capped flows recorded on its incoming edges.
AvailableWater(n) ==
    LET incoming == in_edges(n) \cap DOMAIN sim.edge_flow
        accepted ==
            [e \in incoming |->
                IF sim.edge_flow[e][1] > capacity[e] * sim.edge_flow[e][2]
                THEN RInt(capacity[e])
                ELSE sim.edge_flow[e]]
    IN RAdd(sim.node_rainfall[n], RSumOver(incoming, accepted))

(* C7, as stated: for every node the flows on its outgoing edges sum to at *)
(* most its rainfall plus accepted inflow, and to exactly that when none   *)
(* of its outgoing edges is flooded.                                        *)
C7_EqualWheneverNoneFlooded ==
    sim.pc # "idle" =>
        \A n \in sim.processed :
            /\ ~RLess(AvailableWater(n), OutFlowSum(n))
            /\ out_edges(n) \cap ReportedEdges(sim.flooded_edges) = {}
                  => OutFlowSum(n) = AvailableWater(n)

(* C7: for every node the flows recorded on its outgoing edges sum to at   *)
(* most its rainfall plus accepted inflow; for a processed node that has   *)
(* an outgoing edge the sum is exactly that amount, flooded or not.        *)
C7_ConservationBound ==
    sim.pc # "idle" =>
        \A n \in Nodes :
            /\ ~RLess(AvailableWater(n), OutFlowSum(n))
            /\ (n \in sim.processed /\ out_edges(n) # {})
                  => OutFlowSum(n) = AvailableWater(n)

(* A node that received a capped inflow and passed its water on through    *)
(* two edges of different capacity, both flooded.                           *)
C7_Witness ==
    /\ sim.pc = "saved"
    /\ \E n \in Nodes :
          /\ \E e \in in_edges(n) : e \in ReportedEdges(sim.flooded_edges)
          /\ Cardinality(out_edges(n)) = 2
          /\ out_edges(n) \subseteq ReportedEdges(sim.flooded_edges)

\* ------------------------------------------------------------- builder claims
Clustered == build.pc \in {"edges", "done"}

EndpointIds == DOMAIN build.all_endpoints

\* Endpoints i and j are at most the snap threshold apart.
WithinThreshold(i, j) ==
    LET dx == build.all_endpoints[i][1] - build.all_endpoints[j][1]
        dy == build.all_endpoints[i][2] - build.all_endpoints[j][2]
    IN dx * dx + dy * dy <= SNAP_THRESHOLD_DEGREES * SNAP_THRESHOLD_DEGREES

\* The endpoints linked to those of S by a chain of pairs within the threshold.
RECURSIVE Chained(_)
Chained(S) ==
    LET more == {j \in EndpointIds : \E i \in S : WithinThreshold(i, j)}
    IN IF more \subseteq S THEN S ELSE Chained(S \cup more)

(* C8: after clustering, two endpoints are assigned to the same node if    *)
(* and only if a chain of endpoints links them in which each consecutive   *)
(* pair is within the snap threshold.                                       *)
C8_TransitiveSnapping ==
    Clustered =>
        \A i, j \in EndpointIds :
            build.endpoint_to_node[i] = build.endpoint_to_node[j] <=> j \in Chained({i})

\* Endpoints A, B, C in one node with A-B and B-C within the threshold, A-C not.
C8_Witness ==
    /\ Clustered
    /\ \E a, b, c \in EndpointIds :
          /\ WithinThreshold(a, b)
          /\ WithinThreshold(b, c)
          /\ ~WithinThreshold(a, c)
          /\ build.endpoint_to_node[a] = build.endpoint_to_node[b]
          /\ build.endpoint_to_node[b] = build.endpoint_to_node[c]

NodeIds == DOMAIN build.node_to_coord

\* Nodes m and n lie at most the snap threshold apart.
CentroidsWithinThreshold(m, n) ==
    LET dx == RSub(build.node_to_coord[m][1], build.node_to_coord[n][1])
        dy == RSub(build.node_to_coord[m][2], build.node_to_coord[n][2])
    IN ~RLess(RInt(SNAP_THRESHOLD_DEGREES * SNAP_THRESHOLD_DEGREES),
              RAdd(RMul(dx, dx), RMul(dy, dy)))

(* C9, as stated: no two distinct cluster centroids are within the snap    *)
(* threshold of each other, so clustering the centroids again merges       *)
(* nothing.                                                                 *)
C9_CentroidsApart ==
    Clustered =>
        \A m, n \in NodeIds : m # n => ~CentroidsWithinThreshold(m, n)

(* C9: clustering is closed on the endpoints: two endpoints assigned to    *)
(* different nodes are farther apart than the snap threshold, and each     *)
(* node lies at the unweighted mean of the endpoints assigned to it.       *)
C9_EndpointsOfDistinctNodesApart ==
    Clustered =>
        /\ \A i, j \in EndpointIds :
              build.endpoint_to_node[i] # build.endpoint_to_node[j]
                  => ~WithinThreshold(i, j)
        /\ \A n \in NodeIds :
              LET members == {i \in EndpointIds : build.endpoint_to_node[i] = n}
                  size == Cardinality(members)
              IN /\ members # {}
                 /\ \A k \in 1..2 :
                       RMul(RInt(size), build.node_to_coord[n][k])
                           = RSumOver(members, [i \in members |-> RInt(build.all_endpoints[i][k])])

(* Two nodes whose endpoints are all beyond the threshold from each other  *)
(* and whose centroids are not.                                             *)
C9_Witness ==
    /\ Clustered
    /\ \E m, n \in NodeIds :
          /\ m # n
          /\ CentroidsWithinThreshold(m, n)
          /\ \E i, j \in EndpointIds :
                /\ i # j
                /\ build.endpoint_to_node[i] = m
                /\ build.endpoint_to_node[j] = m

\* The segments whose two endpoints are the nodes u and v.
SegmentsBetween(u, v) ==
    {w \in DOMAIN build.waterway_data :
        {build.endpoint_to_node[2 * w], build.endpoint_to_node[2 * w + 1]} = {u, v}}

(* C10: the built graph has no self-loop and one edge per unordered node   *)
(* pair, which is there exactly when a segment joins the pair; the edge's  *)
(* capacity is the greatest capacity among those segments, and its type,   *)
(* name and length are those of one segment that has that capacity.        *)
C10_OneEdgePerPairWithMaxCapacity ==
    build.pc = "done" =>
        /\ \A u, v \in NodeIds :
              (u # v /\ SegmentsBetween(u, v) # {}) <=> <<u, v>> \in DOMAIN build.G
        /\ \A e \in DOMAIN build.G :
              LET u == e[1]
                  v == e[2]
                  attrs == build.G[e]
                  segments == SegmentsBetween(u, v)
              IN /\ u # v
                 /\ <<v, u>> \in DOMAIN build.G
                 /\ build.G[<<v, u>>] = attrs
                 /\ \A w \in segments : build.waterway_data[w].capacity <= attrs.capacity
                 /\ \E w \in segments :
                       /\ build.waterway_data[w].capacity = attrs.capacity
                       /\ build.waterway_data[w].waterway_type = attrs.waterway_type
                       /\ build.waterway_data[w].name = attrs.name
                       /\ build.waterway_data[w].osm_id = attrs.osm_id
                       /\ length_km(build.waterway_data[w].coords) = attrs.length_km

(* Two segments of different capacity between the same two nodes, drawn in *)
(* opposite directions, the later one with the greater capacity.           *)
C10_Witness ==
    /\ build.pc = "done"
    /\ Len(build.edges_data) = 2
    /\ build.edges_data[1].start_node = build.edges_data[2].end_node
    /\ build.edges_data[1].end_node = build.edges_data[2].start_node
    /\ build.edges_data[1].capacity < build.edges_data[2].capacity

\* ------------------------------------------------------------- planner claims
\* The records written so far for origins whose search found a path.
FoundSolutions == {sol \in Range(planner.solutions) : sol.path_found}

\* The consecutive pairs of a path.
PathEdges(path) == {<<path[i], path[i + 1]>> : i \in 1..(Len(path) - 1)}

\* The pairs a record proposes as new canals.
CanalEdges(sol) == {<<c.from_node, c.to_node>> : c \in Range(sol.proposed_canals)}

\* The overflow the flood report gives for an edge it lists.
OverflowOf(e) ==
    LET fe == CHOOSE x \in Range(flood_results.flooded_edges) :
                  x.from_node = e[1] /\ x.to_node = e[2]
    IN fe.overflow

(* C11: the relief volume of a successful route is the sum of the          *)
(* flood-report overflows of the path segments that are existing edges     *)
(* listed in the report, each counted once; no synthetic segment is        *)
(* listed in the report.                                                    *)
C11_ReliefIsOverflowOfFloodedSegments ==
    \A sol \in FoundSolutions :
        LET relieved ==
                (PathEdges(sol.path) \ CanalEdges(sol)) \cap edges
                    \cap ReportedEdges(flood_results.flooded_edges)
        IN /\ sol.metrics.relief_vol = RSumOver(relieved, [e \in relieved |-> OverflowOf(e)])
           /\ CanalEdges(sol) \cap ReportedEdges(flood_results.flooded_edges) = {}

(* A route with a flooded existing segment, an unflooded existing segment  *)
(* and a synthetic one.                                                     *)
C11_Witness ==
    \E sol \in FoundSolutions :
        /\ CanalEdges(sol) # {}
        /\ \E e \in PathEdges(sol.path) \ CanalEdges(sol) :
              e \in ReportedEdges(flood_results.flooded_edges)
        /\ \E e \in PathEdges(sol.path) \ CanalEdges(sol) :
              e \notin ReportedEdges(flood_results.flooded_edges)

\* The lengths of a record's proposed canals, summed.
CanalLength(sol) ==
    LET canals == CanalEdges(sol)
        total[S \in SUBSET canals] ==
            IF S = {} THEN 0
            ELSE LET e == CHOOSE x \in S : TRUE
                 IN haversine_distance_km(get_node_coord(e[1]), get_node_coord(e[2]))
                        + total[S \ {e}]
    IN total[canals]

(* C12: for a successful route the estimated cost is the summed length of  *)
(* its synthetic segments times the rate per km; ROI times the cost is the *)
(* relief volume when the cost is positive, and ROI is infinite when the   *)
(* cost is zero.                                                            *)
C12_CostAndRoi ==
    \A sol \in FoundSolutions :
        /\ sol.metrics.new_length_km = CanalLength(sol)
        /\ sol.metrics.cost_usd_m = CanalLength(sol) * COST_PER_KM_USD_MILLIONS
        /\ sol.metrics.cost_usd_m > 0
              => /\ sol.metrics.roi[2] > 0
                 /\ RMul(sol.metrics.roi, RInt(sol.metrics.cost_usd_m)) = sol.metrics.relief_vol
        /\ sol.metrics.cost_usd_m = 0 => sol.metrics.roi = Infinity

\* One route without new construction and one with it, in the same run.
C12_Witness ==
    /\ \E sol \in FoundSolutions :
          /\ sol.metrics.cost_usd_m = 0
          /\ sol.metrics.roi = Infinity
    /\ \E sol \in FoundSolutions :
          /\ sol.metrics.cost_usd_m > 0
          /\ sol.metrics.relief_vol # RInt(0)
\* ------------------------------------------------------------- C13
\* The total capacity of the outgoing edges of node n.
TotalOutCapacity(n) == SumCapacity(OutEdgeSeq(n))

\* Some node has outgoing edges whose capacities add up to zero.
SomeZeroTotalCapacity ==
    \E n \in Nodes : out_edges(n) # {} /\ TotalOutCapacity(n) = 0

(* C13: a division by zero never ends the flow simulation: when the        *)
(* outgoing edges of a node have zero total capacity the water of the node *)
(* is split equally between them and the simulation still writes all of    *)
(* its outputs (flood report, edge flows, directed graph); it never stops  *)
(* on a fault between the flood report and the edge-flow file.             *)
C13_ZeroCapacityRunCompletes ==
    (sim.pc \in {"propagate", "saved", "failed"} /\ SomeZeroTotalCapacity)
        => /\ sim.pc # "failed"
           /\ \A n \in sim.processed :
                 (out_edges(n) # {} /\ TotalOutCapacity(n) = 0)
                     => \A e \in out_edges(n) :
                           sim.edge_flow[e] =
                               RMul(sim.node_water[n],
                                    Rat(1, Cardinality(out_edges(n))))


\* ------------------------------------------------------------- C19
\* The edges the simulation has flagged flooded so far.
FlaggedEdges == {<<fe.from_node, fe.to_node>> : fe \in Range(sim.flooded_edges)}

\* node water divided by the number of outgoing edges
EqualSplit(n) == RMul(sim.node_water[n], Rat(1, Cardinality(out_edges(n))))

(* C19: an edge of capacity zero never receives more than the equal-split  *)
(* allocation of its node (the node's water divided by the number of its   *)
(* outgoing edges), and it is flagged flooded whenever its flow is         *)
(* positive.                                                               *)
C19_ZeroCapacityEdge ==
    sim.pc \in {"propagate", "saved", "failed"}
        => \A e \in DOMAIN sim.edge_flow :
              capacity[e] = 0
                  => /\ ~RLess(EqualSplit(e[1]), sim.edge_flow[e])
                     /\ RLess(RInt(0), sim.edge_flow[e]) => e \in FlaggedEdges
                     /\ e \in FlaggedEdges =>
                           \E fe \in Range(sim.flooded_edges) :
                              /\ <<fe.from_node, fe.to_node>> = e
                              /\ fe.overflow = sim.edge_flow[e]

(* A node whose two outgoing edges both have capacity zero has been        *)
(* processed: each edge carries half of the node's water and is flagged.   *)
C19_Witness ==
    /\ sim.pc \in {"propagate", "saved", "failed"}
    /\ \E n \in sim.processed :
          /\ Cardinality(out_edges(n)) = 2
          /\ \A e \in out_edges(n) :
                /\ capacity[e] = 0
                /\ sim.edge_flow[e] = EqualSplit(n)
                /\ RLess(RInt(0), sim.edge_flow[e])
                /\ e \in FlaggedEdges

\* ------------------------------------------------------------- C14
\* The positions of the successful records in the list of records.
FoundIndices == {k \in DOMAIN planner.solutions : planner.solutions[k].path_found}

(* C14: the planner appends exactly one record per selected flood origin,  *)
(* in selection order and with rank equal to its position; a record of a   *)
(* failed search has path_found false, an empty path and no proposed       *)
(* canals; a failed search does not stop the loop, so at the end there are *)
(* as many records as origins; and the ranked project list and the totals  *)
(* of the report are those of the successful records only.                 *)
C14_OneRecordPerOrigin ==
    LET solutions == planner.solutions
        selected == planner.selected_flood_points
        ranked == planner.successful_solutions
    IN /\ Len(solutions) <= Len(selected)
       /\ planner.pc \in {"loop", "search"} => Len(solutions) = planner.i
       /\ planner.pc = "done" => Len(solutions) = Len(selected)
       /\ \A k \in DOMAIN solutions :
             /\ solutions[k].rank = k
             /\ solutions[k].start_node = selected[k].from_node
             /\ ~solutions[k].path_found
                   => /\ solutions[k].path = <<>>
                      /\ solutions[k].proposed_canals = <<>>
             /\ solutions[k].path_found
                   => /\ Len(solutions[k].path) >= 1
                      /\ solutions[k].path[1] = solutions[k].start_node
       /\ planner.pc = "done"
             => /\ Len(ranked) = Cardinality(FoundIndices)
                /\ \A k \in FoundIndices :
                      \E j \in DOMAIN ranked : ranked[j] = solutions[k]
                /\ \A j \in DOMAIN ranked : ranked[j].path_found
                /\ \A j \in DOMAIN ranked :
                      j > 1 => ~RLess(ranked[j - 1].metrics.roi, ranked[j].metrics.roi)
                /\ RInt(planner.total_investment) =
                      RSumOver(FoundIndices,
                               [k \in FoundIndices |-> RInt(solutions[k].metrics.cost_usd_m)])
                /\ planner.total_relief =
                      RSumOver(FoundIndices,
                               [k \in FoundIndices |-> solutions[k].metrics.relief_vol])
                /\ RInt(planner.total_new_km) =
                      RSumOver(FoundIndices,
                               [k \in FoundIndices |-> RInt(solutions[k].metrics.new_length_km)])

(* The report has been written for two origins: the search from the first  *)
(* failed, the search from the second found a route, which is the only    *)
(* project of the report.                                                  *)
C14_Witness ==
    /\ planner.pc = "done"
    /\ Len(planner.solutions) = 2
    /\ ~planner.solutions[1].path_found
    /\ planner.solutions[2].path_found
    /\ planner.solutions[2].metrics.relief_vol # RInt(0)
    /\ planner.successful_solutions = <<planner.solutions[2]>>
    /\ planner.total_relief = planner.solutions[2].metrics.relief_vol

\* ------------------------------------------------------------- C15
\* The consecutive pairs of a segment list.
SegmentPairs(segments) ==
    {<<segments[k].from_node, segments[k].to_node>> : k \in DOMAIN segments}

\* The geometric length of a path: the distances of its consecutive pairs.
PathLength(path) ==
    LET steps == 1..(Len(path) - 1)
    IN RSumOver(steps,
                [i \in steps |->
                    RInt(haversine_distance_km(get_node_coord(path[i]),
                                               get_node_coord(path[i + 1])))])

(* C15: for the path and parent map a search returns, analyze_path puts    *)
(* every consecutive pair of the path into exactly one of the two lists:   *)
(* the synthetic list when the parent entry of the pair's target node      *)
(* carries the synthetic flag, the existing list otherwise; the parent of  *)
(* the target is the pair's source; the two lists keep the path order; and *)
(* the lengths of their segments add up to the total distance, which is    *)
(* the geometric length of the path.  The canals of a record are the       *)
(* synthetic list.                                                         *)
C15_PathPartition ==
    /\ Found(1) =>
          LET path == search[1].ret[1]
              came_from == search[1].ret[2]
              analysis == analyze_path(path, came_from)
              existing_edges == analysis[1]
              new_edges == analysis[2]
              total_distance == analysis[3]
          IN /\ Len(existing_edges) + Len(new_edges) = Len(path) - 1
             /\ SegmentPairs(existing_edges) \cap SegmentPairs(new_edges) = {}
             /\ \A i \in 1..(Len(path) - 1) :
                   LET pair == <<path[i], path[i + 1]>>
                   IN /\ path[i + 1] \in DOMAIN came_from
                      /\ came_from[path[i + 1]][1] = path[i]
                      /\ pair \in SegmentPairs(new_edges) <=> came_from[path[i + 1]][2]
                      /\ pair \in SegmentPairs(existing_edges) <=> ~came_from[path[i + 1]][2]
             /\ \A k \in DOMAIN new_edges : new_edges[k].is_new
             /\ \A k \in DOMAIN existing_edges : ~existing_edges[k].is_new
             /\ SumDistance(existing_edges) + SumDistance(new_edges) = total_distance
             /\ RInt(total_distance) = PathLength(path)
    /\ \A k \in DOMAIN planner.solutions :
          LET sol == planner.solutions[k]
          IN sol.path_found =>
                /\ CanalEdges(sol) \subseteq PathEdges(sol.path)
                /\ CanalEdges(sol) \cap edges = {}
                /\ (PathEdges(sol.path) \ CanalEdges(sol)) \subseteq edges

(* A search has returned a path of three nodes whose first segment is      *)
(* synthetic and whose second is an existing edge.                         *)
C15_Witness ==
    /\ Found(1)
    /\ Len(search[1].ret[1]) = 3
    /\ search[1].ret[2][search[1].ret[1][2]][2]
    /\ ~search[1].ret[2][search[1].ret[1][3]][2]
    /\ planner.pc = "search"

\* ------------------------------------------------------------- C16
\* astar_find_path run from its first iteration to its return, on its own.
RECURSIVE SearchAlone(_)
SearchAlone(s) ==
    IF s.pc # "run" THEN s
    ELSE IF ~LoopGuard(s)
    THEN [s EXCEPT !.pc = "nopath", !.ret = <<None, None, None, None>>]
    ELSE SearchAlone(LoopBody(s, CHOOSE e \in heappop(s.open_set) : TRUE))

\* The record of an origin as a function of graph, report, goals and origin.
RecordAlone(start_node) ==
    Solution(RankOf(start_node), start_node, SearchAlone(StartSearch(start_node)))

(* C16: with the origins searched in any order and the iterations of the   *)
(* searches interleaved, the record of every origin (success flag, path,   *)
(* cost, reached goal, proposed canals, metrics) is the one the search of  *)
(* that origin alone gives from the graph, the flood report and the goal   *)
(* set; and no step of a search changes the graph, the flood report or     *)
(* the goal set.                                                           *)
C16_RecordIndependentOfOrder ==
    /\ [](\A k \in DOMAIN planner.solutions :
             planner.solutions[k] = RecordAlone(planner.solutions[k].start_node))
    /\ [][UNCHANGED <<lon, lat, G_edges, edges, capacity, flood_results, goal_nodes,
                      max_iterations>>]_vars

(* Two origins were searched by two calls and recorded in the reverse of   *)
(* the selection order; the search of the first origin of the selection    *)
(* found a route and the other did not.                                    *)
C16_Witness ==
    /\ Len(planner.solutions) = 2
    /\ planner.solutions[1].rank = 2
    /\ planner.solutions[2].rank = 1
    /\ planner.solutions[2].path_found
    /\ Len(planner.solutions[2].path) >= 2
    /\ ~planner.solutions[1].path_found
    /\ search[1].start_node = planner.selected_flood_points[2].from_node

\* ------------------------------------------------------------- C17
\* The shared artifacts of the pipeline.
Artifacts ==
    {commands[i][k].file : i \in DOMAIN commands, k \in 1..3} \cup {"design_report.md"}

(* C17: under any interleaving of pipeline runs started through            *)
(* /api/simulate, no stage process rewrites a shared artifact (directed    *)
(* graph file, flood report, planner results) while another stage process  *)
(* has it open for reading or for writing.                                 *)
C17_NoRewriteWhileRead ==
    \A file \in Artifacts :
        \A r \in Requests :
            Accesses(r, "write", file)
                => \A o \in Requests \ {r} :
                      /\ ~Accesses(o, "read", file)
                      /\ ~Accesses(o, "write", file)

\* ------------------------------------------------------------- C18
\* The nodes of the scenario: the flooded edge is A -> B, the goal is D.
ScenarioA == flood_results.flooded_edges[1].from_node

ScenarioB == flood_results.flooded_edges[1].to_node

ScenarioD == CHOOSE n \in goal_nodes : TRUE

ScenarioC == CHOOSE n \in Nodes : n \notin {ScenarioA, ScenarioB, ScenarioD}

\* The max-new-edge distance covers B - D.
ScenarioCovered ==
    haversine_distance_km(get_node_coord(ScenarioB), get_node_coord(ScenarioD))
        <= MAX_NEW_EDGE_DISTANCE_KM

\* The record says: path A -> B -> D, A -> B existing, B -> D synthetic,
\* relief volume 15, new length haversine(B, D).
ScenarioRoute(sol) ==
    LET bd == haversine_distance_km(get_node_coord(ScenarioB), get_node_coord(ScenarioD))
    IN /\ sol.path_found
       /\ sol.start_node = ScenarioA
       /\ sol.path = <<ScenarioA, ScenarioB, ScenarioD>>
       /\ sol.reached_goal = ScenarioD
       /\ CanalEdges(sol) = {<<ScenarioB, ScenarioD>>}
       /\ Len(sol.proposed_canals) = 1
       /\ sol.metrics.relief_vol = RInt(15)
       /\ sol.metrics.new_length_km = bd
       /\ sol.cost =
             (haversine_distance_km(get_node_coord(ScenarioA), get_node_coord(ScenarioB))
                 * EXISTING_EDGE_BASE_COST * FLOOD_TRAVERSAL_COST_MULTIPLIER) \div 10
             + bd * NEW_EDGE_CONSTRUCTION_COST

(* C18: on a graph of four nodes (A east, B, C, D west and outlet) whose   *)
(* only flooded edge is A -> B (capacity 10, flow 25, overflow 15), with   *)
(* no edge between B and D and B - D within the new-edge distance, the     *)
(* planner run from A with goal {D} returns the path A -> B -> D, A -> B   *)
(* an existing segment at the discounted cost and B -> D synthetic, with   *)
(* relief volume 15 and new length haversine(B, D).                        *)
C18_ScenarioRoute ==
    ScenarioCovered
        => \A k \in DOMAIN planner.solutions : ScenarioRoute(planner.solutions[k])

\* A -> B -> D is a route of the hybrid graph and every other route from A
\* to D costs more.
ScenarioRouteIsCheapest ==
    LET abd == <<ScenarioA, ScenarioB, ScenarioD>>
    IN /\ abd \in PathsToGoal(ScenarioA)
       /\ \A p \in PathsToGoal(ScenarioA) \ {abd} :
             HybridPathCost(p) > HybridPathCost(abd)

(* C18, amended: in the same scenario, when A -> B -> D is strictly        *)
(* cheaper than every other route from A to D of the hybrid graph, the     *)
(* planner returns A -> B -> D with A -> B existing at the discounted cost *)
(* and B -> D synthetic, relief volume 15 and new length haversine(B, D).  *)
C18_CheapestScenarioRoute ==
    (ScenarioCovered /\ ScenarioRouteIsCheapest)
        => \A k \in DOMAIN planner.solutions : ScenarioRoute(planner.solutions[k])

(* The planner has recorded A -> B -> D on a graph in which C has edges of *)
(* its own, one of them into D.                                            *)
C18_Witness ==
    /\ ScenarioCovered
    /\ ScenarioRouteIsCheapest
    /\ Len(planner.solutions) = 1
    /\ ScenarioRoute(planner.solutions[1])
    /\ planner.pc = "done"
    /\ \E e \in edges : ScenarioC \in {e[1], e[2]}
    /\ <<ScenarioC, ScenarioD>> \in edges

\* ------------------------------------------------------------- C20
(* C20: relaxation re-enqueues on improvement: a neighbour whose cost has  *)
(* been improved has its best cost, parent and synthetic flag updated and  *)
(* is in the queue with priority equal to its new f = g + h, so that every *)
(* queue entry's key equals the current f of its node.  (The entry of the  *)
(* origin, which is queued with key 0, is left aside.)                     *)
C20_QueueKeyIsCurrentF ==
    \A r \in Runs :
        LET s == search[r]
        IN s.pc = "run"
              => \A e \in s.open_set :
                    e[2] # s.start_node
                        => /\ e[2] \in DOMAIN s.f_score
                           /\ e[1] = s.f_score[e[2]]
                           /\ s.f_score[e[2]] =
                                 s.g_score[e[2]] + heuristic(e[2], goal_nodes)

\* ------------------------------------------------------------- C21
\* The edge costs along a returned path, each edge costed by the flag that
\* the parent map records for its target.
RecordedPathCost(path, came_from) ==
    LET steps == 1..(Len(path) - 1)
    IN RSumOver(steps,
                [i \in steps |->
                    RInt(get_edge_cost(path[i], path[i + 1], came_from[path[i + 1]][2]))])

(* C21: when astar_find_path succeeds, the returned cost (the g value of   *)
(* the goal when it is popped) equals the sum of the edge costs along the  *)
(* returned reconstructed path, each edge costed by its recorded           *)
(* existing/synthetic flag.                                                *)
C21_CostIsSumAlongPath ==
    \A r \in Runs :
        Found(r) =>
            RInt(search[r].ret[3]) = RecordedPathCost(search[r].ret[1], search[r].ret[2])

(* A search has returned, after at least three iterations, a path of at    *)
(* least three nodes with a synthetic and an existing segment.             *)
C21_Witness ==
    /\ Found(1)
    /\ Len(search[1].ret[1]) >= 3
    /\ \E i \in 2..Len(search[1].ret[1]) : search[1].ret[2][search[1].ret[1][i]][2]
    /\ \E i \in 2..Len(search[1].ret[1]) : ~search[1].ret[2][search[1].ret[1][i]][2]
    /\ search[1].ret[3] > 0
    /\ search[1].iterations >= 3

\* ------------------------------------------------------------- C22
\* The overflows of the flooded outgoing edges of a node, from the edge flows.
OverflowSum(n) ==
    LET over == {e \in out_edges(n) \cap DOMAIN sim.edge_flow :
                    RLess(RInt(capacity[e]), sim.edge_flow[e])}
    IN RSumOver(over, [e \in over |-> RSub(sim.edge_flow[e], RInt(capacity[e]))])

(* C22: the water a node holds is its rainfall plus, for each incoming     *)
(* edge processed, min(flow, capacity), so a flooded edge forwards exactly *)
(* its capacity; the local excess of a node is the sum of the overflows of *)
(* its outgoing edges; an edge is listed as flooded exactly when its flow  *)
(* exceeds its capacity, with overflow flow - capacity; and the            *)
(* flooded-node list of the report is the set of upstream nodes of the     *)
(* flooded edges.                                                          *)
C22_CappedForwarding ==
    sim.pc \in {"propagate", "saved"} =>
        /\ \A n \in Nodes :
              /\ sim.node_water[n] = AvailableWater(n)
              /\ Excess(sim.node_excess, n) = OverflowSum(n)
        /\ \A e \in DOMAIN sim.edge_flow :
              e \in FlaggedEdges <=> RLess(RInt(capacity[e]), sim.edge_flow[e])
        /\ \A k \in DOMAIN sim.flooded_edges :
              LET fe == sim.flooded_edges[k]
              IN /\ fe.flow = sim.edge_flow[<<fe.from_node, fe.to_node>>]
                 /\ fe.overflow = RSub(fe.flow, RInt(fe.capacity))
                 /\ fe.capacity = capacity[<<fe.from_node, fe.to_node>>]
        /\ sim.pc = "saved" =>
              /\ flood_results.flooded_nodes = {e[1] : e \in FlaggedEdges}
              /\ \A n \in flood_results.flooded_nodes :
                    flood_results.node_excess[n] = OverflowSum(n)

(* The report is written for a graph in which a flooded edge leads into a  *)
(* node that has an outgoing edge, and some node has no flooded edge.      *)
C22_Witness ==
    /\ sim.pc = "saved"
    /\ \E e \in FlaggedEdges :
          /\ out_edges(e[2]) # {}
          /\ sim.node_water[e[2]] =
                RAdd(sim.node_rainfall[e[2]], RInt(capacity[e]))
    /\ \E n \in Nodes : out_edges(n) # {} /\ n \notin flood_results.flooded_nodes

\* ------------------------------------------------------------- C23
\* u is east of v, or on the same longitude and north of it.
Upstream(u, v) == lon[u] > lon[v] \/ (lon[u] = lon[v] /\ lat[u] > lat[v])

(* C23: once the simulation has oriented the working graph, every          *)
(* undirected edge has exactly one directed edge, which runs from the      *)
(* endpoint of higher longitude to the other one, and between endpoints of *)
(* equal longitude from the higher latitude to the lower; it carries the   *)
(* capacity of the undirected edge; there are no other directed edges, so  *)
(* the two edge counts are equal; and every node of the graph is a node of *)
(* the directed graph.                                                     *)
C23_Directionality ==
    sim.pc \in {"propagate", "saved", "failed"} =>
        /\ \A p \in DOMAIN G_edges :
              /\ Cardinality({<<p[1], p[2]>>, <<p[2], p[1]>>} \cap edges) = 1
              /\ \A e \in {<<p[1], p[2]>>, <<p[2], p[1]>>} \cap edges :
                    /\ Upstream(e[1], e[2])
                    /\ capacity[e] = G_edges[p]
        /\ \A e \in edges :
              <<e[1], e[2]>> \in DOMAIN G_edges \/ <<e[2], e[1]>> \in DOMAIN G_edges
        /\ Cardinality(edges) = Cardinality(DOMAIN G_edges)
        /\ DOMAIN capacity = edges
        /\ DOMAIN sim.node_rainfall = Nodes

(* The graph has been oriented and has an edge between two nodes of the    *)
(* same longitude, an edge between nodes of different longitudes, and two  *)
(* different capacities.                                                   *)
C23_Witness ==
    /\ sim.pc = "propagate"
    /\ \E e \in edges : lon[e[1]] = lon[e[2]] /\ lat[e[1]] > lat[e[2]]
    /\ \E e \in edges : lon[e[1]] > lon[e[2]] /\ lat[e[1]] < lat[e[2]]
    /\ \E e, o \in edges : capacity[e] # capacity[o]

\* ------------------------------------------------------------- C24
\* The place of a processed node in processing_order.
PlaceOf(n) == CHOOSE i \in DOMAIN sim.processing_order : sim.processing_order[i] = n

(* C24: during and after propagation every node appears at most once in    *)
(* the processing order and the run is saved only when all appear; while a *)
(* node is left some node can be processed; in a component without a cycle *)
(* a node comes after every node with an edge into it, and the water it    *)
(* hands to its outgoing edges is its rainfall plus everything its         *)
(* incoming edges forward; in a component with a cycle the longitudes      *)
(* never rise along the order, and the run does not fail.                  *)
C24_PropagationOrder ==
    sim.pc \in {"propagate", "saved", "failed"} =>
        /\ \A i, j \in DOMAIN sim.processing_order :
              sim.processing_order[i] = sim.processing_order[j] => i = j
        /\ Range(sim.processing_order) = sim.processed
        /\ sim.pc \in {"saved", "failed"} => sim.processed = Nodes
        /\ (sim.pc = "propagate" /\ sim.processed # Nodes) =>
              \E n \in Nodes \ sim.processed : ready(n)
        /\ \A n \in sim.processed :
              IF has_cycle(weakly_connected_component({n}))
              THEN /\ \A m \in sim.processed \cap weakly_connected_component({n}) :
                         PlaceOf(m) < PlaceOf(n) => lon[m] >= lon[n]
                   /\ sim.pc # "failed"
              ELSE /\ \A e \in in_edges(n) :
                         /\ e[1] \in sim.processed
                         /\ PlaceOf(e[1]) < PlaceOf(n)
                   /\ out_edges(n) # {} =>
                         /\ in_edges(n) \subseteq DOMAIN sim.edge_flow
                         /\ OutFlowSum(n) = AvailableWater(n)

(* A saved run over a graph with two components: one has a node with an    *)
(* edge to itself and was processed by longitude, a node of it before the  *)
(* node with an edge into it; the other has no cycle and an edge, whose    *)
(* lower end received water.                                               *)
C24_Witness ==
    /\ sim.pc = "saved"
    /\ \E e \in edges :
          /\ e[1] # e[2]
          /\ has_cycle(weakly_connected_component({e[1]}))
          /\ PlaceOf(e[2]) < PlaceOf(e[1])
    /\ \E e \in edges :
          /\ ~has_cycle(weakly_connected_component({e[1]}))
          /\ RLess(sim.node_rainfall[e[2]], sim.node_water[e[2]])

\* ------------------------------------------------------------- C25
\* The distance between the upstream nodes of two entries of the sorted report.
OriginDistance(i, j) ==
    haversine_distance_km(get_node_coord(worst_floods[i].from_node),
                          get_node_coord(worst_floods[j].from_node))

(* Entry k of the sorted report is taken: fewer than the maximum are taken *)
(* before it and it keeps the separation from each of them.                *)
RECURSIVE Taken(_)
Taken(k) ==
    LET earlier == {j \in 1..(k - 1) : Taken(j)}
    IN /\ Cardinality(earlier) < planner.max_flood_points
       /\ \A j \in earlier : OriginDistance(j, k) >= planner.min_separation_km

(* C25: once the origins are selected, the report is gone through from the *)
(* largest overflow down, and the selected points are the entries taken,   *)
(* in that order, an entry being taken exactly when fewer than the maximum *)
(* are selected so far and its upstream node keeps the minimum separation  *)
(* from every origin selected before it; so any two selected origins are   *)
(* different nodes at least the minimum separation apart, and the upstream *)
(* node of the entry of the largest overflow is the first one selected.    *)
C25_GreedySelection ==
    planner.pc \in {"loop", "search", "done"} =>
        LET selected == planner.selected_flood_points
            taken == {k \in DOMAIN worst_floods : Taken(k)}
            place(k) == Cardinality({j \in taken : j <= k})
        IN /\ \A i, j \in DOMAIN worst_floods :
                 i < j => ~RLess(worst_floods[i].overflow, worst_floods[j].overflow)
           /\ Len(selected) = Cardinality(taken)
           /\ \A k \in taken : selected[place(k)] = worst_floods[k]
           /\ \A a, b \in DOMAIN selected :
                 a # b =>
                    /\ selected[a].from_node # selected[b].from_node
                    /\ haversine_distance_km(get_node_coord(selected[a].from_node),
                                             get_node_coord(selected[b].from_node))
                          >= planner.min_separation_km
           /\ selected # <<>>
           /\ selected[1] = worst_floods[1]
           /\ Len(selected) <= planner.max_flood_points

(* The selection has run over a report of two edges with room for          *)
(* MAX_FLOOD_POINTS points and has taken both: the second origin is far    *)
(* enough from the first, whose overflow is the larger.                    *)
C25_Witness ==
    /\ planner.pc = "loop"
    /\ planner.max_flood_points = MAX_FLOOD_POINTS
    /\ Len(planner.selected_flood_points) = 2
    /\ RLess(planner.selected_flood_points[2].overflow,
             planner.selected_flood_points[1].overflow)

\* ------------------------------------------------------------- C26
\* The event that ends a run whose four stage processes all returned 0.
CompleteEvent == [event |-> "SIMULATION_COMPLETE", stage |-> 0]

\* The event that ends a run whose stage process k returned another code.
ErrorEvent(k) == [event |-> "Error executing", stage |-> k]

(* C26: in every run the stage processes are started in the order of the   *)
(* command list, flow simulation, pathfinding, route visualisation, flood  *)
(* visualisation; a stage is started only after every stage before it has  *)
(* returned 0; once a stage has returned another code, the error event of  *)
(* that stage is the only closing event and that stage is the last one     *)
(* started; and SIMULATION_COMPLETE is emitted exactly when four stages    *)
(* have returned 0.                                                        *)
C26_StageOrder ==
    \A r \in Requests :
        LET s == server[r]
            failed == {k \in DOMAIN s.returncodes : s.returncodes[k] # 0}
        IN /\ commands = <<flow_simulation_py, astar_pathfinding_py,
                           visualise_astar_py, visualise_flooding_py>>
           /\ Len(s.started) <= Len(commands)
           /\ \A k \in DOMAIN s.started : s.started[k] = k
           /\ Len(s.returncodes) <= Len(s.started)
           /\ \A k \in DOMAIN s.started :
                 \A j \in 1..(k - 1) : j \in DOMAIN s.returncodes /\ s.returncodes[j] = 0
           /\ \A k \in failed :
                 /\ k = Len(s.started)
                 /\ s.events = <<ErrorEvent(k)>>
                 /\ s.pc = "error"
           /\ failed = {} => \A e \in Range(s.events) : e = CompleteEvent
           /\ CompleteEvent \in Range(s.events)
                 <=> /\ Len(s.returncodes) = Len(commands)
                     /\ \A k \in DOMAIN s.returncodes : s.returncodes[k] = 0
           /\ Len(s.events) <= 1

(* One run has ended with the error event of its second stage, two stages  *)
(* started, and the other has emitted SIMULATION_COMPLETE after four.      *)
C26_Witness ==
    /\ server[1].events = <<ErrorEvent(2)>>
    /\ server[1].started = <<1, 2>>
    /\ server[1].returncodes = <<0, 1>>
    /\ server[2].events = <<CompleteEvent>>
    /\ server[2].returncodes = <<0, 0, 0, 0>>

\* ------------------------------------------------------------- C27
(* C27: the flow simulation started by a request assigns rainfall from the *)
(* intensity of that request, twice the intensity at a source node and     *)
(* half of it at any other node, and the flood report it writes records    *)
(* that intensity as storm_intensity.                                      *)
C27_IntensityOfRequest ==
    \A r \in Requests :
        (server[r].pc = "running" /\ server[r].stage = 1
            /\ sim.pc \in {"propagate", "saved"}) =>
            /\ \A n \in Nodes :
                  sim.node_rainfall[n] =
                      IF n \in source_nodes
                      THEN RInt(2 * server[r].intensity)
                      ELSE Rat(server[r].intensity, 2)
            /\ sim.pc = "saved" =>
                  flood_results.storm_intensity = server[r].intensity

TotalRainfall == RSumOver(Nodes, sim.node_rainfall)

\* The water held by the given nodes.
WaterHeld(S) == RSumOver(S, [n \in S |-> sim.node_water[n]])

\* The local excess of all nodes that have one.
TotalExcess == RSumOver(DOMAIN sim.node_excess, sim.node_excess)

(* C29: in a run over an acyclic directed graph the rainfall of all nodes  *)
(* equals, at every point of the propagation, the water held by the sink   *)
(* nodes and by the nodes not processed yet plus the local excess of all   *)
(* nodes; so once every node is processed the total rainfall is the water  *)
(* held at the sink nodes plus the total local excess, which is also the   *)
(* total overflow of the flood report.                                     *)
C29_MassConservation ==
    (sim.pc \in {"propagate", "saved"} /\ ~has_cycle(Nodes)) =>
        /\ TotalRainfall =
              RAdd(WaterHeld(sink_nodes \cup (Nodes \ sim.processed)), TotalExcess)
        /\ sim.pc = "saved" =>
              /\ sim.processed = Nodes
              /\ TotalRainfall = RAdd(WaterHeld(sink_nodes), TotalExcess)
              /\ flood_results.total_rainfall = TotalRainfall
              /\ flood_results.total_overflow = TotalExcess
              /\ TotalRainfall =
                    RAdd(WaterHeld(sink_nodes), flood_results.total_overflow)

(* A saved run in which a node passed water through two flooded edges, a   *)
(* sink received water from upstream, and some edge is not flooded.        *)
C29_Witness ==
    /\ sim.pc = "saved"
    /\ \E n \in Nodes :
          Cardinality(out_edges(n) \cap ReportedEdges(sim.flooded_edges)) = 2
    /\ \E n \in sink_nodes : RLess(sim.node_rainfall[n], sim.node_water[n])
    /\ \E e \in edges : e \notin ReportedEdges(sim.flooded_edges)

\* ------------------------------------------------------------- C30
\* The capacities of the outgoing edges of n, summed.
OutCapacity(n) == SumCapacity(OutEdgeSeq(n))

(* C30: at a processed node whose outgoing edges all have a positive       *)
(* capacity, either every outgoing edge is flooded or none is; they are    *)
(* flooded exactly when the water the node had to hand on, its rainfall    *)
(* plus its accepted inflow, exceeds the sum of their capacities, and then *)
(* the local excess of the node is that water minus that sum; otherwise    *)
(* the node has no excess.                                                 *)
C30_AllOrNothing ==
    sim.pc \in {"propagate", "saved"} =>
        \A n \in sim.processed :
            (out_edges(n) # {} /\ \A e \in out_edges(n) : capacity[e] > 0) =>
                LET over == out_edges(n) \cap ReportedEdges(sim.flooded_edges)
                    water == AvailableWater(n)
                IN /\ over = out_edges(n) \/ over = {}
                   /\ over = out_edges(n) <=> RLess(RInt(OutCapacity(n)), water)
                   /\ \A e \in out_edges(n) :
                         flooded(sim.edge_flow[e], capacity[e]) <=> e \in over
                   /\ Excess(sim.node_excess, n) =
                         IF over = {} THEN RInt(0)
                         ELSE RSub(water, RInt(OutCapacity(n)))

(* A saved run in which a node with two outgoing edges of different        *)
(* capacities has flooded both, its water being its rainfall and an        *)
(* inflow, while the edge into it is not flooded.                          *)
C30_Witness ==
    /\ sim.pc = "saved"
    /\ \E n \in Nodes :
          /\ \E e, o \in out_edges(n) : capacity[e] # capacity[o]
          /\ out_edges(n) \subseteq ReportedEdges(sim.flooded_edges)
          /\ \E i \in in_edges(n) : i \notin ReportedEdges(sim.flooded_edges)
          /\ sim.node_excess[n] = RSub(AvailableWater(n), RInt(OutCapacity(n)))

============================================================================
